---------------------------- MODULE Spec2Model ----------------------------
(***************************************************************************)
(* A model of VOWL-R: the graph-serialization engine                       *)
(* (crates/database/src/serializers), the store wrapper                    *)
(* (crates/database/src/store.rs) and the stored-ontology server function. *)
(*                                                                         *)
(* Strings are modelled as sequences of tokens, so that formatting,        *)
(* trimming and IRI parsing are computed rather than assumed.              *)
(***************************************************************************)
EXTENDS Integers, Sequences, FiniteSets, TLC

VARIABLES
    data_buffer,   \* serializer: the SerializationDataBuffer of the running call
    data,          \* serializer: the caller's GraphDisplayData (output parameter)
    ser_pc,        \* serializer: "stream" | "returned" | "hung"
    ser_result,    \* serializer: the value serialize_nodes_stream returned
    count,         \* serializer: rows handed to write_node_triple so far
    pos,           \* serializer: items taken from the solution stream so far
    last,          \* serializer: history, the last step taken and its input
    session,       \* store wrapper: the quads of the wrapped session
    upload_handle, \* store wrapper: Option<NamedTempFile>
    store_ret,     \* store wrapper: history, last call and the value it returned
    uploaded,      \* store wrapper: history, file name and chunks of the upload a caller is running
    GLOBAL_STORE,  \* process: the OnceLock<Store> singleton
    task,          \* process: the concurrent tasks that use VOWLRStore::default()
    edge_set,      \* edge tests: a HashSet<Edge> and the insert calls made on it
    filtered,      \* filter menu: the arguments of a filter call and its result
    export,        \* export: the session, the file and the result of serialize_to_file
    stream         \* order scenarios: history, the rows the stream has yielded so far

vars == <<data_buffer, data, ser_pc, ser_result, count, pos, last,
          session, upload_handle, store_ret, uploaded, GLOBAL_STORE, task,
          edge_set, filtered, export, stream>>

ser_vars == <<data_buffer, data, ser_pc, ser_result, count, pos, last>>
store_vars == <<session, upload_handle, store_ret, uploaded>>
proc_vars == <<GLOBAL_STORE, task>>
unit_vars == <<edge_set, filtered, export, stream>>

----------------------------------------------------------------------------
(* Generic helpers for HashMap-like functions.                             *)

EmptyMap == << >>

Has(m, k) == k \in DOMAIN m

Put(m, k, v) == [x \in DOMAIN m \cup {k} |-> IF x = k THEN v ELSE m[x]]

Del(m, k) == [x \in DOMAIN m \ {k} |-> m[x]]

----------------------------------------------------------------------------
(* Terms (oxrdf::Term).  id is the token sequence of the IRI, the blank    *)
(* node identifier or the literal value.                                   *)

Iri(tokens) == [kind |-> "named", id |-> tokens]

Blank(name) == [kind |-> "blank", id |-> <<name>>]

Lit(value) == [kind |-> "literal", id |-> <<value>>]

\* Option<Term>::None
NoTerm == [kind |-> "none", id |-> << >>]

\* The outcome of a resolve() call whose while loop never exits.
Diverge == [kind |-> "diverge", id |-> << >>]

is_named_node(t) == t.kind = "named"

is_blank_node(t) == t.kind = "blank"

\* Display for Term: <iri>, _:id, "value".
to_string(t) ==
    CASE t.kind = "named" -> <<"<">> \o t.id \o <<">">>
      [] t.kind = "blank" -> <<"_:">> \o t.id
      [] t.kind = "literal" -> <<"\"">> \o t.id \o <<"\"">>
      [] OTHER -> << >>

RECURSIVE trim_start(_), trim_end(_)
trim_start(s) == IF s # << >> /\ Head(s) = "<" THEN trim_start(Tail(s)) ELSE s

trim_end(s) ==
    IF s # << >> /\ s[Len(s)] = ">" THEN trim_end(SubSeq(s, 1, Len(s) - 1)) ELSE s

trim_tag_circumfix(input) == trim_end(trim_start(input))

\* Tokens that start an absolute IRI (scheme and authority, empty path).
Schemes == {"http://example.com", "http://other.org", "http://www.w3.org/owl",
            "http://www.w3.org/rdfs", "http://www.w3.org/rdf"}

\* Tokens no IRI may contain.
IllegalIriTokens == {"<", ">", "\"", "_:"}

\* Iri::parse / NamedNode::new accept the string.
IriValid(s) ==
    /\ s # << >>
    /\ s[1] \in Schemes
    /\ \A i \in 1..Len(s) : s[i] \notin IllegalIriTokens

\* str::contains on token sequences.
Contains(s, sub) ==
    \E i \in 0..(Len(s) - Len(sub)) : SubSeq(s, i + 1, i + Len(sub)) = sub

IndexOf(s, tok) ==
    IF \E i \in 1..Len(s) : s[i] = tok
    THEN CHOOSE i \in 1..Len(s) : s[i] = tok /\ \A j \in 1..(i - 1) : s[j] # tok
    ELSE 0

LastIndexOf(s, tok) ==
    IF \E i \in 1..Len(s) : s[i] = tok
    THEN CHOOSE i \in 1..Len(s) : s[i] = tok /\ \A j \in (i + 1)..Len(s) : s[j] # tok
    ELSE 0

----------------------------------------------------------------------------
(* Vocabulary (crate::vocab::owl, oxrdf::vocab::{rdf, rdfs}).              *)

owl(local) == Iri(<<"http://www.w3.org/owl", "#", local>>)
rdfs(local) == Iri(<<"http://www.w3.org/rdfs", "#", local>>)
rdf(local) == Iri(<<"http://www.w3.org/rdf", "#", local>>)

rdf_PROPERTY == rdf("Property")
rdfs_CLASS == rdfs("Class")
rdfs_DATATYPE == rdfs("Datatype")
rdfs_DOMAIN == rdfs("domain")
rdfs_LITERAL == rdfs("Literal")
rdfs_RANGE == rdfs("range")
rdfs_RESOURCE == rdfs("Resource")
rdfs_SUB_CLASS_OF == rdfs("subClassOf")
owl_CLASS == owl("Class")
owl_COMPLEMENT_OF == owl("complementOf")
owl_DATATYPE_PROPERTY == owl("DatatypeProperty")
owl_DEPRECATED_CLASS == owl("DeprecatedClass")
owl_DEPRECATED_PROPERTY == owl("DeprecatedProperty")
owl_DISJOINT_UNION_OF == owl("disjointUnionOf")
owl_DISJOINT_WITH == owl("disjointWith")
owl_EQUIVALENT_CLASS == owl("equivalentClass")
owl_INTERSECTION_OF == owl("intersectionOf")
owl_INVERSE_FUNCTIONAL_PROPERTY == owl("InverseFunctionalProperty")
owl_OBJECT_PROPERTY == owl("ObjectProperty")
owl_ONTOLOGY == owl("Ontology")
owl_THING == owl("Thing")
owl_UNION_OF == owl("unionOf")

\* get_reserved_iris(): the reserved terms, rendered and trimmed.
get_reserved_iris ==
    { trim_tag_circumfix(to_string(t)) :
        t \in {rdf("XMLLiteral"),
               rdfs_DOMAIN, rdfs_LITERAL, rdfs_RANGE, rdfs_RESOURCE, rdfs_SUB_CLASS_OF,
               rdfs("subPropertyOf"),
               owl("AllDisjointClasses"), owl("AllDisjointProperties"), owl_COMPLEMENT_OF,
               owl("datatypeComplementOf"), owl("deprecated"), owl_DEPRECATED_CLASS,
               owl_DEPRECATED_PROPERTY, owl("differentFrom"), owl_DISJOINT_UNION_OF,
               owl_DISJOINT_WITH, owl_EQUIVALENT_CLASS, owl("equivalentProperty"),
               owl_INTERSECTION_OF, owl_THING, owl_UNION_OF} }

----------------------------------------------------------------------------
(* Element types (grapher::prelude::ElementType), as used by the engine.   *)

NoDraw == "NoDraw"
OwlClass == "Owl.Node.Class"
OwlAnonymousClass == "Owl.Node.AnonymousClass"
OwlComplement == "Owl.Node.Complement"
OwlDeprecatedClass == "Owl.Node.DeprecatedClass"
OwlDisjointUnion == "Owl.Node.DisjointUnion"
OwlEquivalentClass == "Owl.Node.EquivalentClass"
OwlIntersectionOf == "Owl.Node.IntersectionOf"
OwlThing == "Owl.Node.Thing"
OwlUnionOf == "Owl.Node.UnionOf"
OwlDatatypeProperty == "Owl.Edge.DatatypeProperty"
OwlDeprecatedProperty == "Owl.Edge.DeprecatedProperty"
OwlDisjointWith == "Owl.Edge.DisjointWith"
OwlExternalProperty == "Owl.Edge.ExternalProperty"
OwlObjectProperty == "Owl.Edge.ObjectProperty"
RdfsClass == "Rdfs.Node.Class"
RdfsDatatype == "Rdfs.Node.Datatype"
RdfsLiteral == "Rdfs.Node.Literal"
RdfsResource == "Rdfs.Node.Resource"
RdfsSubclassOf == "Rdfs.Edge.SubclassOf"
RdfProperty == "Rdf.Edge.RdfProperty"

\* Display for ElementType (grapher crate): one token naming the type.
element_to_string(e) == <<e>>

----------------------------------------------------------------------------
(* Triple and Edge.                                                        *)

Triple(id, element_type, target) ==
    [id |-> id, element_type |-> element_type, target |-> target]

\* The symmetric kinds of PartialEq for Edge.
eq_so == {OwlDisjointWith}

\* impl PartialEq for Edge without the property test.
EdgeEq_any_property(a, b) ==
    /\ a.element_type = b.element_type
    /\ IF a.element_type \in eq_so
       THEN \/ (a.subject = b.subject /\ a.object = b.object)
            \/ (a.subject = b.object /\ a.object = b.subject)
       ELSE a.subject = b.subject /\ a.object = b.object

\* impl PartialEq for Edge
EdgeEq(a, b) ==
    IF a.element_type # b.element_type \/ a.property # b.property
    THEN FALSE
    ELSE IF a.element_type \in eq_so
         THEN \/ (a.subject = b.subject /\ a.object = b.object)
              \/ (a.subject = b.object /\ a.object = b.subject)
         ELSE a.subject = b.subject /\ a.object = b.object

\* impl Hash for Edge, without the sort of the symmetric arm.
EdgeHash_unsorted(e) ==
    IF e.element_type \in eq_so
    THEN <<e.subject, e.object, e.element_type>>
    ELSE IF e.element_type = OwlObjectProperty
    THEN <<e.subject, e.element_type, e.object, e.property>>
    ELSE <<e.subject, e.element_type, e.object>>

\* impl Hash for Edge: the values fed to the Hasher, in order.  The pair
\* (first, second) ordered by Term's Ord is the canonical form of the
\* unordered pair, modelled as the set of the two terms.
EdgeHash(e) ==
    IF e.element_type \in eq_so
    THEN <<{e.subject, e.object}, e.element_type>>
    ELSE IF e.element_type = OwlObjectProperty
    THEN <<e.subject, e.element_type, e.object, e.property>>
    ELSE <<e.subject, e.element_type, e.object>>

\* A table lookup finds a stored key that is equal and has the same hash.
EdgeFound(x, e) == EdgeEq(x, e) /\ EdgeHash(x) = EdgeHash(e)

\* HashSet<Edge>::insert: an equal element already present is kept.
EdgeSetInsert(S, e) == IF \E x \in S : EdgeFound(x, e) THEN S ELSE S \cup {e}

\* HashSet<Edge>::remove
EdgeSetRemove(S, e) == {x \in S : ~EdgeFound(x, e)}

\* HashSet<Edge>::contains
EdgeSetContains(S, e) == \E x \in S : EdgeFound(x, e)

\* HashMap<Edge, V>::insert: the stored key is kept, the value replaced.
EdgeMapInsert(m, e, v) ==
    IF \E k \in DOMAIN m : EdgeFound(k, e)
    THEN [k \in DOMAIN m |-> IF EdgeFound(k, e) THEN v ELSE m[k]]
    ELSE Put(m, e, v)

EdgeMapHas(m, e) == \E k \in DOMAIN m : EdgeFound(k, e)

EdgeMapGet(m, e) == m[CHOOSE k \in DOMAIN m : EdgeFound(k, e)]

----------------------------------------------------------------------------
(* SerializationDataBuffer.  abort is the model's record of a call that    *)
(* does not return: "hang" when resolve() loops forever.  pass and         *)
(* processed are history: whether check_all_unknowns has started, and the  *)
(* triples write_node_triple was called with since then, in call order.    *)

NewBuffer ==
    [node_element_buffer |-> EmptyMap,
     edge_element_buffer |-> EmptyMap,
     edge_redirection |-> EmptyMap,
     edges_include_map |-> EmptyMap,
     property_edge_map |-> EmptyMap,
     property_domain_map |-> EmptyMap,
     property_range_map |-> EmptyMap,
     label_buffer |-> EmptyMap,
     edge_label_buffer |-> EmptyMap,
     edge_buffer |-> {},
     edge_characteristics |-> EmptyMap,
     node_characteristics |-> EmptyMap,
     unknown_buffer |-> EmptyMap,
     failed_buffer |-> << >>,
     document_base |-> << >>,
     has_base |-> FALSE,
     abort |-> "none",
     pass |-> FALSE,
     processed |-> << >>]

Hang(buf) == [buf EXCEPT !.abort = "hang"]

----------------------------------------------------------------------------
(* Label extraction.                                                       *)

\* Iri::fragment(): the tokens after the first '#', if any.
HasFragment(s) == IndexOf(s, "#") # 0

Fragment(s) == SubSeq(s, IndexOf(s, "#") + 1, Len(s))

\* Iri::path(): the tokens between the authority and the fragment.
Path(s) ==
    IF HasFragment(s) THEN SubSeq(s, 2, IndexOf(s, "#") - 1) ELSE SubSeq(s, 2, Len(s))

\* An extract_label without the test that prevents overriding a label.
extract_label_overriding(buf, label, id_term) ==
    IF label # NoTerm
    THEN [buf EXCEPT !.label_buffer = Put(@, id_term, to_string(label))]
    ELSE LET iri == trim_tag_circumfix(to_string(id_term)) IN
         IF IriValid(iri) /\ HasFragment(iri)
         THEN [buf EXCEPT !.label_buffer = Put(@, id_term, Fragment(iri))]
         ELSE buf

\* extract_label(data_buffer, label, id_term); label is NoTerm for None.
extract_label(buf, label, id_term) ==
    IF Has(buf.label_buffer, id_term)
    THEN buf
    ELSE IF label # NoTerm
         THEN IF to_string(label) # << >>
              THEN [buf EXCEPT !.label_buffer = Put(@, id_term, to_string(label))]
              ELSE buf
         ELSE LET iri == trim_tag_circumfix(to_string(id_term)) IN
              IF ~IriValid(iri)
              THEN buf
              ELSE IF HasFragment(iri)
                   THEN [buf EXCEPT !.label_buffer = Put(@, id_term, Fragment(iri))]
                   ELSE LET path == Path(iri)
                            cut == LastIndexOf(path, "/") IN
                        IF cut # 0
                        THEN [buf EXCEPT !.label_buffer =
                                 Put(@, id_term, SubSeq(path, cut + 1, Len(path)))]
                        ELSE buf

----------------------------------------------------------------------------
(* Resolution.                                                             *)

Classified(buf, x) == Has(buf.node_element_buffer, x) \/ Has(buf.edge_element_buffer, x)

\* The while loop of resolve(): follows edge_redirection from x.  seen holds
\* the terms already visited; returning to one of them means the loop never
\* exits, because the buffer does not change while it runs.
RECURSIVE resolve_loop(_, _, _)
resolve_loop(buf, x, seen) ==
    IF ~Has(buf.edge_redirection, x)
    THEN NoTerm
    ELSE LET new_x == buf.edge_redirection[x] IN
         IF Classified(buf, new_x)
         THEN new_x
         ELSE IF new_x \in seen
              THEN Diverge
              ELSE resolve_loop(buf, new_x, seen \cup {new_x})

resolve(buf, x) ==
    IF Classified(buf, x) THEN x ELSE resolve_loop(buf, x, {x})

\* resolve_so(data_buffer, triple): <<resolved subject, resolved object>>.
\* The subject is resolved first; if that call never returns, the object is
\* never looked at.
resolve_so(buf, triple) ==
    LET s == resolve(buf, triple.id) IN
    IF s = Diverge
    THEN <<Diverge, Diverge>>
    ELSE <<s, IF triple.target # NoTerm THEN resolve(buf, triple.target) ELSE NoTerm>>

----------------------------------------------------------------------------
(* Buffer updates without replay.                                          *)

\* add_to_element_buffer(element_buffer, triple, element_type)
add_to_element_buffer(element_buffer, triple, element_type) ==
    IF Has(element_buffer, triple.id)
    THEN element_buffer
    ELSE Put(element_buffer, triple.id, element_type)

\* A parking that replaces the rows already parked under the key.
add_to_unknown_buffer_replacing(buf, element_iri, triple) ==
    [buf EXCEPT !.unknown_buffer = Put(@, element_iri, {triple})]

\* A parking that also records the row as failed.
add_to_unknown_buffer_failing(buf, element_iri, triple) ==
    IF Has(buf.unknown_buffer, element_iri)
    THEN [buf EXCEPT !.unknown_buffer[element_iri] = @ \cup {triple},
                     !.failed_buffer = Append(@, <<triple, "Unresolved">>)]
    ELSE [buf EXCEPT !.unknown_buffer = Put(@, element_iri, {triple}),
                     !.failed_buffer = Append(@, <<triple, "Unresolved">>)]

\* add_to_unknown_buffer(data_buffer, element_iri, triple)
add_to_unknown_buffer(buf, element_iri, triple) ==
    IF Has(buf.unknown_buffer, element_iri)
    THEN [buf EXCEPT !.unknown_buffer[element_iri] = @ \cup {triple}]
    ELSE [buf EXCEPT !.unknown_buffer = Put(@, element_iri, {triple})]

\* insert_edge_include(data_buffer, element_iri, edge)
insert_edge_include(buf, element_iri, edge) ==
    IF Has(buf.edges_include_map, element_iri)
    THEN [buf EXCEPT !.edges_include_map[element_iri] = EdgeSetInsert(@, edge)]
    ELSE [buf EXCEPT !.edges_include_map = Put(@, element_iri, {edge})]

\* is_external(data_buffer, iri)
is_external(buf, iri) ==
    IF is_blank_node(iri)
    THEN FALSE
    ELSE LET clean_iri == trim_tag_circumfix(to_string(iri)) IN
         IF buf.has_base
         THEN ~Contains(clean_iri, buf.document_base) /\ clean_iri \notin get_reserved_iris
         ELSE FALSE

should_hash_property ==
    {OwlObjectProperty, OwlDatatypeProperty, OwlDeprecatedProperty, OwlExternalProperty}

\* A push that records the failure twice.
push_failed_twice(buf, triple, msg) ==
    [buf EXCEPT !.failed_buffer = Append(Append(@, <<triple, msg>>), <<triple, msg>>)]

\* push onto failed_buffer
push_failed(buf, triple, msg) ==
    [buf EXCEPT !.failed_buffer = Append(@, <<triple, msg>>)]

\* An insert_edge that records the row's nodeType as the property of every
\* edge, whatever its kind.
insert_edge_always_property(buf, triple, edge_type, label) ==
    LET new_type == IF edge_type # NoDraw /\ is_external(buf, triple.id)
                    THEN OwlExternalProperty
                    ELSE edge_type
        so == resolve_so(buf, triple) IN
    IF so[1] \in {NoTerm, Diverge} \/ so[2] \in {NoTerm, Diverge}
    THEN [buf |-> buf, edge |-> [subject |-> NoTerm, element_type |-> "None",
                                 object |-> NoTerm, property |-> NoTerm]]
    ELSE LET edge == [subject |-> so[1], element_type |-> new_type,
                      object |-> so[2], property |-> triple.element_type] IN
         [buf |-> [buf EXCEPT !.edge_buffer = EdgeSetInsert(@, edge)], edge |-> edge]

\* insert_edge(data_buffer, triple, edge_type, label): the buffer afterwards
\* and the edge returned (NoEdge for None).  label is an Option<String>.
NoLabel == [some |-> FALSE, v |-> << >>]

SomeLabel(l) == [some |-> TRUE, v |-> l]

NoEdge == [subject |-> NoTerm, element_type |-> "None", object |-> NoTerm, property |-> NoTerm]

insert_edge(buf, triple, edge_type, label) ==
    LET new_type == IF edge_type # NoDraw /\ is_external(buf, triple.id)
                    THEN OwlExternalProperty
                    ELSE edge_type
        so == resolve_so(buf, triple) IN
    IF so[1] = Diverge \/ so[2] = Diverge
    THEN [buf |-> Hang(buf), edge |-> NoEdge]
    ELSE IF so[1] # NoTerm /\ so[2] # NoTerm
    THEN LET edge == [subject |-> so[1],
                      element_type |-> new_type,
                      object |-> so[2],
                      property |-> IF new_type \in should_hash_property
                                   THEN triple.element_type ELSE NoTerm]
             b1 == [buf EXCEPT !.edge_buffer = EdgeSetInsert(@, edge)]
             b2 == insert_edge_include(b1, so[1], edge)
             b3 == insert_edge_include(b2, so[2], edge)
             b4 == [b3 EXCEPT !.edge_label_buffer =
                       EdgeMapInsert(@, edge,
                           IF label.some THEN label.v ELSE element_to_string(new_type))] IN
         [buf |-> b4, edge |-> edge]
    ELSE IF so[1] = NoTerm /\ so[2] # NoTerm
    THEN [buf |-> add_to_unknown_buffer(buf, triple.id, triple), edge |-> NoEdge]
    ELSE IF so[1] # NoTerm /\ so[2] = NoTerm
    THEN [buf |-> IF triple.target # NoTerm
                  THEN add_to_unknown_buffer(buf, triple.target, triple)
                  ELSE buf,
          edge |-> NoEdge]
    ELSE [buf |-> add_to_unknown_buffer(buf, triple.id, triple), edge |-> NoEdge]

\* The loop body of update_edges for one edge of the removed include set.
update_one_edge(buf, edge, old, new) ==
    LET b1 == [buf EXCEPT !.edge_buffer = EdgeSetRemove(@, edge)]
        e1 == IF edge.object = old THEN [edge EXCEPT !.object = new] ELSE edge
        e2 == IF e1.subject = old THEN [e1 EXCEPT !.subject = new] ELSE e1
        b2 == [b1 EXCEPT !.edge_buffer = EdgeSetInsert(@, e2)] IN
    insert_edge_include(b2, new, e2)

RECURSIVE update_edges_loop(_, _, _, _)
update_edges_loop(buf, old_edges, old, new) ==
    IF old_edges = {}
    THEN buf
    ELSE LET edge == CHOOSE e \in old_edges : TRUE IN
         update_edges_loop(update_one_edge(buf, edge, old, new), old_edges \ {edge}, old, new)

\* update_edges(data_buffer, old, new)
update_edges(buf, old, new) ==
    IF Has(buf.edges_include_map, old)
    THEN update_edges_loop([buf EXCEPT !.edges_include_map = Del(@, old)],
                           buf.edges_include_map[old], old, new)
    ELSE buf

\* An upgrade that replaces whatever classification the node has.
upgrade_node_type_any(buf, iri, new_element) ==
    IF Has(buf.node_element_buffer, iri)
    THEN [buf EXCEPT !.node_element_buffer[iri] = new_element]
    ELSE buf

\* upgrade_node_type(data_buffer, iri, new_element)
upgrade_node_type(buf, iri, new_element) ==
    IF Has(buf.node_element_buffer, iri) /\ buf.node_element_buffer[iri] = OwlClass
    THEN [buf EXCEPT !.node_element_buffer[iri] = new_element]
    ELSE buf

\* extend_element_label(data_buffer, element, label_to_append)
extend_element_label(buf, element, label_to_append) ==
    IF Has(buf.label_buffer, element)
    THEN [buf EXCEPT !.label_buffer[element] = @ \o <<"\n">> \o label_to_append]
    ELSE [buf EXCEPT !.label_buffer = Put(@, element, label_to_append)]

\* create_node(id, node_type, object_iri = None): the triple, or NoTriple
\* when NamedNode::new rejects the id.
NoTriple == Triple(NoTerm, NoTerm, NoTerm)

create_node(id, node_type) ==
    IF IriValid(id) THEN Triple(Iri(id), node_type, NoTerm) ELSE NoTriple

----------------------------------------------------------------------------
(* write_node_triple and the operations that replay parked rows.  A        *)
(* HashSet is iterated in an order the program does not fix, so each of    *)
(* these yields the set of buffers the call can end with.                  *)

Panic(buf) == [buf EXCEPT !.abort = "panic"]

Running(buf) == buf.abort = "none"

\* Continue with a step f on every buffer whose call is still running.
Then(bufs, f(_)) == {IF Running(b) THEN f(b) ELSE b : b \in bufs}

Bind(bufs, f(_)) == UNION {IF Running(b) THEN f(b) ELSE {b} : b \in bufs}

RECURSIVE write_node_triple(_, _), replay(_, _), check_unknown_buffer(_, _),
          insert_node(_, _, _), redirect_iri(_, _, _), merge_nodes(_, _, _),
          insert_nodes(_, _)

\* for triple in triples { write_node_triple(data_buffer, triple) }, over
\* every iteration order of the set.
replay(bufs, triples) ==
    IF triples = {}
    THEN bufs
    ELSE UNION { replay(Bind(bufs, LAMBDA b : write_node_triple(b, t)), triples \ {t}) :
                   t \in triples }

\* check_unknown_buffer(data_buffer, term)
check_unknown_buffer(buf, term) ==
    IF Has(buf.unknown_buffer, term)
    THEN replay({[buf EXCEPT !.unknown_buffer = Del(@, term)]}, buf.unknown_buffer[term])
    ELSE {buf}

\* redirect_iri(data_buffer, old, new)
redirect_iri(buf, old, new) ==
    check_unknown_buffer([buf EXCEPT !.edge_redirection = Put(@, old, new)], old)

\* An owl::ONTOLOGY arm in which a later row overrides the document base.
ontology_overriding(buf, triple) ==
    [buf EXCEPT !.has_base = TRUE,
                !.document_base = trim_tag_circumfix(to_string(triple.id))]

\* write_node_triple, owl::ONTOLOGY arm: the first row sets the document base.
ontology(buf, triple) ==
    IF buf.has_base
    THEN buf
    ELSE [buf EXCEPT !.has_base = TRUE,
                     !.document_base = trim_tag_circumfix(to_string(triple.id))]

\* An insert_node that replays the parked rows without registering the node.
insert_node_replay_only(buf, triple, node_type) ==
    IF Has(buf.edge_redirection, triple.id)
    THEN {buf}
    ELSE check_unknown_buffer(buf, triple.id)

\* An insert_node that also registers a term that was redirected.
insert_node_unchecked(buf, triple, node_type) ==
    check_unknown_buffer(
        [buf EXCEPT !.node_element_buffer = add_to_element_buffer(@, triple, node_type)],
        triple.id)

\* insert_node(data_buffer, triple, node_type)
insert_node(buf, triple, node_type) ==
    IF Has(buf.edge_redirection, triple.id)
    THEN {buf}
    ELSE check_unknown_buffer(
             [buf EXCEPT !.node_element_buffer = add_to_element_buffer(@, triple, node_type)],
             triple.id)

\* merge_nodes(data_buffer, old, new)
merge_nodes(buf, old, new) ==
    redirect_iri(update_edges([buf EXCEPT !.node_element_buffer = Del(@, old)], old, new),
                 old, new)

\* insert_edge used for its effect only.
insert_edge_buf(buf, triple, edge_type) == insert_edge(buf, triple, edge_type, NoLabel).buf

\* owl:complementOf and owl:disjointUnionOf: a NoDraw edge, then the
\* resolved subject is upgraded when the row has a target.
edge_then_upgrade_resolved(buf, triple, node_type) ==
    LET b1 == insert_edge_buf(buf, triple, NoDraw) IN
    IF ~Running(b1) \/ triple.target = NoTerm
    THEN b1
    ELSE LET index == resolve(b1, triple.id) IN
         IF index = Diverge THEN Hang(b1)
         ELSE IF index # NoTerm THEN upgrade_node_type(b1, index, node_type)
         ELSE b1

\* owl:intersectionOf and owl:unionOf: a NoDraw edge, then the subject of
\* the inserted edge is upgraded.
edge_then_upgrade_subject(buf, triple, node_type) ==
    LET r == insert_edge(buf, triple, NoDraw, NoLabel) IN
    IF Running(r.buf) /\ r.edge # NoEdge
    THEN upgrade_node_type(r.buf, r.edge.subject, node_type)
    ELSE r.buf

\* insert_characteristic(data_buffer, triple, arg)
insert_characteristic(buf, triple, arg) ==
    LET s == resolve(buf, triple.id) IN
    IF s = Diverge THEN Hang(buf)
    ELSE IF s # NoTerm
    THEN IF Has(buf.node_characteristics, s)
         THEN [buf EXCEPT !.node_characteristics[s] = Append(@, arg)]
         ELSE buf
    ELSE add_to_unknown_buffer(buf, triple.id, triple)

\* A named-object arm that reports "object not found" also when the object
\* is a key of unknown_buffer only.
equivalent_class_named_strict(buf, triple) ==
    LET target == triple.target
        b1 == IF Has(buf.label_buffer, target)
              THEN extend_element_label([buf EXCEPT !.label_buffer = Del(@, target)],
                                        triple.id, buf.label_buffer[target])
              ELSE buf
        upgrade(b) == upgrade_node_type(b, triple.id, OwlEquivalentClass) IN
    IF Has(b1.node_element_buffer, target)
    THEN Then(merge_nodes([b1 EXCEPT !.node_element_buffer = Del(@, target)],
                          target, triple.id),
              upgrade)
    ELSE {push_failed(b1, triple,
              "Failed to merge object of equivalence relation into subject: object not found")}

\* The owl:equivalentClass arm of write_node_triple, named object.
equivalent_class_named(buf, triple) ==
    LET target == triple.target
        b1 == IF Has(buf.label_buffer, target)
              THEN extend_element_label([buf EXCEPT !.label_buffer = Del(@, target)],
                                        triple.id, buf.label_buffer[target])
              ELSE buf
        upgrade(b) == upgrade_node_type(b, triple.id, OwlEquivalentClass) IN
    IF Has(b1.node_element_buffer, target)
    THEN Then(merge_nodes([b1 EXCEPT !.node_element_buffer = Del(@, target)],
                          target, triple.id),
              upgrade)
    ELSE IF Has(b1.unknown_buffer, target)
    THEN {upgrade([b1 EXCEPT !.unknown_buffer = Del(@, target)])}
    ELSE {push_failed(b1, triple,
              "Failed to merge object of equivalence relation into subject: object not found")}

\* The owl:equivalentClass arm of write_node_triple, blank-node object.
equivalent_class_blank(buf, triple) ==
    LET so == resolve_so(buf, triple) IN
    IF so[1] = Diverge \/ so[2] = Diverge
    THEN {Hang(buf)}
    ELSE IF so[1] # NoTerm /\ so[2] # NoTerm
    THEN merge_nodes(buf, so[2], so[1])
    ELSE IF so[1] # NoTerm
    THEN redirect_iri(buf, triple.target, so[1])
    ELSE {add_to_unknown_buffer(buf, triple.target, triple)}

\* The owl:equivalentClass arm of write_node_triple.
equivalent_class(buf, triple) ==
    IF triple.target = NoTerm
    THEN {push_failed(buf, triple, "Subject of equivalence relation is missing an object")}
    ELSE IF is_named_node(triple.target)
    THEN equivalent_class_named(buf, triple)
    ELSE IF is_blank_node(triple.target)
    THEN equivalent_class_blank(buf, triple)
    ELSE {push_failed(buf, triple,
              "Visualization of equivalence relations between classes and literals is not supported")}

\* The placeholder node the fallback arm makes for a missing endpoint:
\* "<other>_thing" for an owl:Thing target, "<other>_literal" for an
\* rdfs:Literal target, none otherwise or when the IRI is rejected.
placeholder(target, thing_of, literal_of) ==
    IF target = owl_THING
    THEN create_node(trim_tag_circumfix(to_string(thing_of) \o <<"_thing">>), owl_THING)
    ELSE IF target = rdfs_LITERAL
    THEN create_node(trim_tag_circumfix(to_string(literal_of) \o <<"_literal">>), rdfs_LITERAL)
    ELSE NoTriple

\* The first match of the fallback arm: the buffer, the nodes to insert
\* (node_triple) and the edge row (edge_triple, NoTriple for None).
fallback_plan(buf, triple) ==
    LET domain == resolve(buf, triple.id)
        property == IF domain = Diverge THEN Diverge ELSE resolve(buf, triple.element_type)
        range == IF property = Diverge THEN Diverge ELSE resolve(buf, triple.target)
        none == [buf |-> buf, nodes |-> << >>, edge |-> NoTriple]
        park(key) == [buf |-> add_to_unknown_buffer(buf, key, triple),
                      nodes |-> << >>, edge |-> NoTriple] IN
    IF range = Diverge
    THEN [buf |-> Hang(buf), nodes |-> << >>, edge |-> NoTriple]
    ELSE IF domain # NoTerm /\ property # NoTerm /\ range # NoTerm
    THEN [buf |-> buf, nodes |-> << >>, edge |-> triple]
    ELSE IF domain # NoTerm /\ property # NoTerm
    THEN LET node == placeholder(triple.target, domain, property) IN
         IF node # NoTriple
         THEN [buf |-> buf, nodes |-> <<node>>,
               edge |-> Triple(triple.id, triple.element_type, node.id)]
         ELSE park(triple.target)
    ELSE IF property # NoTerm /\ range # NoTerm
    THEN LET node == placeholder(triple.target, range, range) IN
         IF node # NoTriple
         THEN [buf |-> buf, nodes |-> <<node>>,
               edge |-> Triple(node.id, triple.element_type, node.target)]
         ELSE park(triple.target)
    ELSE IF property # NoTerm
    THEN IF triple.element_type = owl_DATATYPE_PROPERTY
         THEN \* NamedNode::new(property.to_string() + "_locallitral").unwrap()
              IF IriValid(to_string(property) \o <<"_locallitral">>)
                 /\ IriValid(to_string(property) \o <<"_localthing">>)
              THEN LET literal == create_node(
                           to_string(Iri(to_string(property) \o <<"_locallitral">>)),
                           rdfs_LITERAL)
                       thing == create_node(
                           to_string(Iri(to_string(property) \o <<"_localthing">>)),
                           owl_THING) IN
                   IF literal # NoTriple /\ thing # NoTriple
                   THEN [buf |-> buf, nodes |-> <<literal, thing>>,
                         edge |-> Triple(thing.id, triple.element_type, literal.id)]
                   ELSE none
              ELSE [buf |-> Panic(buf), nodes |-> << >>, edge |-> NoTriple]
         ELSE IF triple.element_type = owl_OBJECT_PROPERTY
         THEN \* NamedNode::new(owl::THING.to_string() + "_thing").unwrap()
              IF IriValid(to_string(owl_THING) \o <<"_thing">>)
              THEN LET global_thing == Iri(to_string(owl_THING) \o <<"_thing">>)
                       node == create_node(to_string(global_thing), global_thing) IN
                   IF node # NoTriple
                   THEN [buf |-> buf, nodes |-> <<node>>,
                         edge |-> Triple(node.id, triple.element_type, node.id)]
                   ELSE none
              ELSE [buf |-> Panic(buf), nodes |-> << >>, edge |-> NoTriple]
         ELSE none
    ELSE IF domain # NoTerm /\ range # NoTerm
    THEN park(triple.element_type)
    ELSE park(triple.id)

\* for node_triple in node_triples { insert_node(...) }
insert_nodes(bufs, nodes) ==
    IF nodes = << >>
    THEN bufs
    ELSE LET n == Head(nodes)
             step(b) == IF n.element_type = owl_THING
                        THEN insert_node(b, n, OwlThing)
                        ELSE IF n.element_type = rdfs_LITERAL
                        THEN insert_node(b, n, RdfsLiteral)
                        ELSE {b} IN
         insert_nodes(Bind(bufs, step), Tail(nodes))

\* The second half of the fallback arm: insert the edge row and record the
\* property's edge, domain and range.
fallback_edge(buf, edge_triple) ==
    LET key == to_string(edge_triple.element_type)
        r == insert_edge(buf, edge_triple, OwlObjectProperty,
                 IF Has(buf.label_buffer, edge_triple.element_type)
                 THEN SomeLabel(buf.label_buffer[edge_triple.element_type])
                 ELSE NoLabel)
        add_set(m, k, v) == IF Has(m, k) THEN [m EXCEPT ![k] = @ \cup {v}] ELSE Put(m, k, {v}) IN
    IF Running(r.buf) /\ r.edge # NoEdge
    THEN [r.buf EXCEPT
             !.property_edge_map = Put(@, key, r.edge),
             !.property_domain_map = add_set(@, key, to_string(edge_triple.target)),
             !.property_range_map = add_set(@, key, to_string(edge_triple.id))]
    ELSE r.buf

\* The fallback arm of write_node_triple (any other named nodeType).
fallback(buf, triple) ==
    IF triple.target = NoTerm
    THEN {buf}
    ELSE LET plan == fallback_plan(buf, triple) IN
         IF ~Running(plan.buf) \/ plan.edge = NoTriple
         THEN insert_nodes({plan.buf}, plan.nodes)
         ELSE Then(insert_nodes({plan.buf}, plan.nodes),
                   LAMBDA b : fallback_edge(b, plan.edge))

\* debug!("{}", triple) on entry of write_node_triple: the history of the
\* calls made during the final pass.
debug(buf, triple) ==
    IF buf.pass /\ Running(buf)
    THEN [buf EXCEPT !.processed = Append(@, triple)]
    ELSE buf

\* write_node_triple(data_buffer, triple)
write_node_triple(data_buffer_in, triple) ==
    LET ty == triple.element_type
        buf == debug(data_buffer_in, triple) IN
    IF ~Running(buf) THEN {buf}
    ELSE IF ty.kind = "blank"
    THEN {push_failed(buf, triple, "Illegal blank node during serialization")}
    ELSE IF ty.kind = "literal"
    THEN IF ty.id = <<"blanknode">>
         THEN insert_node(buf, triple, OwlAnonymousClass)
         ELSE {buf}
    ELSE CASE ty = rdf_PROPERTY -> {insert_edge_buf(buf, triple, RdfProperty)}
           [] ty = rdfs_CLASS -> insert_node(buf, triple, RdfsClass)
           [] ty = rdfs_DATATYPE -> insert_node(buf, triple, RdfsDatatype)
           [] ty = rdfs_DOMAIN -> {buf}
           [] ty = rdfs_LITERAL -> insert_node(buf, triple, RdfsLiteral)
           [] ty = rdfs_RANGE -> {buf}
           [] ty = rdfs_RESOURCE -> insert_node(buf, triple, RdfsResource)
           [] ty = rdfs_SUB_CLASS_OF -> {insert_edge_buf(buf, triple, RdfsSubclassOf)}
           [] ty = owl_CLASS -> insert_node(buf, triple, OwlClass)
           [] ty = owl_COMPLEMENT_OF -> {edge_then_upgrade_resolved(buf, triple, OwlComplement)}
           [] ty = owl_DATATYPE_PROPERTY ->
                {[buf EXCEPT !.edge_element_buffer =
                      add_to_element_buffer(@, triple, OwlDatatypeProperty)]}
           [] ty = owl_DEPRECATED_CLASS -> insert_node(buf, triple, OwlDeprecatedClass)
           [] ty = owl_DEPRECATED_PROPERTY ->
                {insert_edge_buf(buf, triple, OwlDeprecatedProperty)}
           [] ty = owl_DISJOINT_UNION_OF ->
                {edge_then_upgrade_resolved(buf, triple, OwlDisjointUnion)}
           [] ty = owl_DISJOINT_WITH -> {insert_edge_buf(buf, triple, OwlDisjointWith)}
           [] ty = owl_EQUIVALENT_CLASS -> equivalent_class(buf, triple)
           [] ty = owl_INTERSECTION_OF ->
                {edge_then_upgrade_subject(buf, triple, OwlIntersectionOf)}
           [] ty = owl_INVERSE_FUNCTIONAL_PROPERTY ->
                {insert_characteristic(buf, triple, <<"InverseFunctionalProperty">>)}
           [] ty = owl_OBJECT_PROPERTY ->
                {[buf EXCEPT !.edge_element_buffer =
                      add_to_element_buffer(@, triple, OwlObjectProperty)]}
           [] ty = owl_ONTOLOGY -> {ontology(buf, triple)}
           [] ty = owl_THING -> insert_node(buf, triple, OwlThing)
           [] ty = owl_UNION_OF -> {edge_then_upgrade_subject(buf, triple, OwlUnionOf)}
           [] OTHER -> fallback(buf, triple)

\* The unknown_buffer map taken by check_all_unknowns, replayed key by key
\* in every order of the keys.
RECURSIVE replay_groups(_, _, _)
replay_groups(bufs, unknowns, keys) ==
    IF keys = {}
    THEN bufs
    ELSE UNION { replay_groups(replay(bufs, unknowns[k]), unknowns, keys \ {k}) : k \in keys }

\* check_all_unknowns(data_buffer)
check_all_unknowns(buf) ==
    replay_groups({[buf EXCEPT !.unknown_buffer = EmptyMap, !.pass = TRUE]},
                  buf.unknown_buffer, DOMAIN buf.unknown_buffer)

----------------------------------------------------------------------------
(* GraphDisplayData and the conversion from the buffer.  Indices are the   *)
(* program's, counted from 0: element i is elements[i + 1].                *)

NewGraphDisplayData ==
    [elements |-> << >>, labels |-> << >>, edges |-> << >>,
     characteristics |-> EmptyMap, cardinalities |-> EmptyMap]

\* All iteration orders of a finite set.
Orders(S) ==
    {f \in [1..Cardinality(S) -> S] : \A x \in S : \E i \in 1..Cardinality(S) : f[i] = x}

\* The label pushed for a node.
node_label(val, iri, element) ==
    IF Has(val.label_buffer, iri) THEN val.label_buffer[iri] ELSE element_to_string(element)

\* First loop of From: one element/label pair per node, index into iricache.
RECURSIVE from_nodes(_, _, _)
from_nodes(acc, val, node_order) ==
    IF node_order = << >>
    THEN acc
    ELSE LET iri == Head(node_order)
             element == val.node_element_buffer[iri]
             dd == [acc.display_data EXCEPT
                       !.labels = Append(@, node_label(val, iri, element)),
                       !.elements = Append(@, element)] IN
         from_nodes([display_data |-> dd,
                     iricache |-> Put(acc.iricache, iri, Len(dd.elements) - 1),
                     edge_label_buffer |-> acc.edge_label_buffer],
                    val, Tail(node_order))

\* Vec<String>::join("\n")
RECURSIVE Join(_)
Join(strings) ==
    IF strings = << >> THEN << >>
    ELSE IF Len(strings) = 1 THEN strings[1]
    ELSE strings[1] \o <<"\n">> \o Join(Tail(strings))

\* A faulty variant of from_edge that takes the edge's index after the push
\* without subtracting one; C2 has to reject it.
from_edge_index_past_end(acc, val, edge) ==
    IF Has(acc.iricache, edge.subject) /\ Has(acc.iricache, edge.object)
       /\ EdgeMapHas(acc.edge_label_buffer, edge)
    THEN LET dd1 == [acc.display_data EXCEPT
                        !.elements = Append(@, edge.element_type),
                        !.labels = Append(@, EdgeMapGet(acc.edge_label_buffer, edge))] IN
         [acc EXCEPT !.display_data =
             [dd1 EXCEPT !.edges = Append(@, <<acc.iricache[edge.subject],
                                               Len(dd1.elements),
                                               acc.iricache[edge.object]>>)]]
    ELSE acc

\* The body of the second loop of From for one edge.
from_edge(acc, val, edge) ==
    LET has_label == EdgeMapHas(acc.edge_label_buffer, edge)
        labels1 == IF has_label
                   THEN [k \in {x \in DOMAIN acc.edge_label_buffer : ~EdgeFound(x, edge)} |->
                            acc.edge_label_buffer[k]]
                   ELSE acc.edge_label_buffer IN
    IF Has(acc.iricache, edge.subject) /\ Has(acc.iricache, edge.object) /\ has_label
    THEN LET dd1 == [acc.display_data EXCEPT
                        !.elements = Append(@, edge.element_type),
                        !.labels = Append(@, EdgeMapGet(acc.edge_label_buffer, edge))]
             dd2 == [dd1 EXCEPT
                        !.edges = Append(@, <<acc.iricache[edge.subject],
                                              Len(dd1.elements) - 1,
                                              acc.iricache[edge.object]>>)]
             dd3 == IF EdgeMapHas(val.edge_characteristics, edge)
                    THEN [dd2 EXCEPT !.characteristics =
                             Put(@, Len(dd2.elements) - 1,
                                 Join(EdgeMapGet(val.edge_characteristics, edge)))]
                    ELSE dd2 IN
         [acc EXCEPT !.display_data = dd3, !.edge_label_buffer = labels1]
    ELSE [acc EXCEPT !.edge_label_buffer = labels1]

RECURSIVE from_edges(_, _, _)
from_edges(acc, val, edge_order) ==
    IF edge_order = << >>
    THEN acc
    ELSE from_edges(from_edge(acc, val, Head(edge_order)), val, Tail(edge_order))

\* Third loop of From: the last characteristic of every indexed node.
from_characteristics(acc, val) ==
    [acc.display_data EXCEPT !.characteristics =
        [i \in DOMAIN @ \cup {acc.iricache[iri] :
                                 iri \in DOMAIN val.node_characteristics \cap DOMAIN acc.iricache} |->
            IF \E iri \in DOMAIN val.node_characteristics \cap DOMAIN acc.iricache :
                   acc.iricache[iri] = i
            THEN LET iri == CHOOSE x \in DOMAIN val.node_characteristics \cap DOMAIN acc.iricache :
                                acc.iricache[x] = i IN
                 val.node_characteristics[iri][Len(val.node_characteristics[iri])]
            ELSE @[i]]]

\* impl From<SerializationDataBuffer> for GraphDisplayData, for one
\* iteration order of node_element_buffer and one of edge_buffer.
From(val, node_order, edge_order) ==
    from_characteristics(
        from_edges(
            from_nodes([display_data |-> NewGraphDisplayData,
                        iricache |-> EmptyMap,
                        edge_label_buffer |-> val.edge_label_buffer],
                       val, node_order),
            val, edge_order),
        val)

----------------------------------------------------------------------------
(* serialize_nodes_stream as a state machine: one step per item of the     *)
(* solution stream, one for the end of the stream.                         *)

\* A query solution: the bindings of ?id, ?nodeType, ?target and ?label
\* (NoTerm when unbound).
Solution(id, nodeType, target, label) ==
    [id |-> id, nodeType |-> nodeType, target |-> target, label |-> label]

NoResult == [kind |-> "None", total |-> 0, log |-> << >>]

SerInit ==
    /\ data_buffer = NewBuffer
    /\ data = NewGraphDisplayData
    /\ ser_pc = "stream"
    /\ ser_result = NoResult
    /\ count = 0
    /\ pos = 0
    /\ last = [op |-> "init", row |-> Solution(NoTerm, NoTerm, NoTerm, NoTerm)]

\* The body of the while loop for a solution the stream yields as Ok.
ProcessRow(solution) ==
    /\ ser_pc = "stream"
    /\ pos' = pos + 1
    /\ UNCHANGED <<data, ser_result>>
    /\ IF solution.id = NoTerm \/ solution.nodeType = NoTerm
       THEN /\ last' = [op |-> "skip", row |-> solution]
            /\ UNCHANGED <<data_buffer, count, ser_pc>>
       ELSE /\ last' = [op |-> "row", row |-> solution]
            /\ \E b \in write_node_triple(
                            extract_label(data_buffer, solution.label, solution.id),
                            Triple(solution.id, solution.nodeType, solution.target)) :
                   /\ data_buffer' = b
                   /\ ser_pc' = IF Running(b) THEN "stream" ELSE b.abort
                   /\ count' = IF Running(b) THEN count + 1 ELSE count

\* The stream yields Err: `solution?` returns it to the caller.
ProcessError ==
    /\ ser_pc = "stream"
    /\ pos' = pos + 1
    /\ ser_pc' = "returned"
    /\ ser_result' = [kind |-> "Err", total |-> 0, log |-> <<"row error">>]
    /\ last' = [op |-> "error", row |-> Solution(NoTerm, NoTerm, NoTerm, NoTerm)]
    /\ UNCHANGED <<data_buffer, data, count>>

\* A faulty variant of finish_with that reports failures only when there is
\* more than one; C1 has to reject it.
finish_with_one_failure_ok(b, node_order, edge_order) ==
    IF ~Running(b)
    THEN [pc |-> b.abort, result |-> NoResult, data |-> data]
    ELSE IF Len(b.failed_buffer) > 1
    THEN [pc |-> "returned",
          result |-> [kind |-> "Err", total |-> Len(b.failed_buffer), log |-> b.failed_buffer],
          data |-> data]
    ELSE [pc |-> "returned",
          result |-> [kind |-> "Ok", total |-> 0, log |-> << >>],
          data |-> From(b, node_order, edge_order)]

\* A faulty variant of finish_with that hands the converted buffer to the
\* caller also when it reports failures.
finish_with_partial(b, node_order, edge_order) ==
    IF ~Running(b)
    THEN [pc |-> b.abort, result |-> NoResult, data |-> data]
    ELSE IF b.failed_buffer # << >>
    THEN [pc |-> "returned",
          result |-> [kind |-> "Err", total |-> Len(b.failed_buffer), log |-> b.failed_buffer],
          data |-> From(b, node_order, edge_order)]
    ELSE [pc |-> "returned",
          result |-> [kind |-> "Ok", total |-> 0, log |-> << >>],
          data |-> From(b, node_order, edge_order)]

\* What serialize_nodes_stream does with the buffer b left by
\* check_all_unknowns: the value returned and the caller's data.
finish_with(b, node_order, edge_order) ==
    IF ~Running(b)
    THEN [pc |-> b.abort, result |-> NoResult, data |-> data]
    ELSE IF b.failed_buffer # << >>
    THEN [pc |-> "returned",
          result |-> [kind |-> "Err", total |-> Len(b.failed_buffer), log |-> b.failed_buffer],
          data |-> data]
    ELSE [pc |-> "returned",
          result |-> [kind |-> "Ok", total |-> 0, log |-> << >>],
          data |-> From(b, node_order, edge_order)]

\* The stream is exhausted.
Finish ==
    /\ ser_pc = "stream"
    /\ \E b \in check_all_unknowns(data_buffer) :
       \E node_order \in Orders(DOMAIN b.node_element_buffer) :
       \E edge_order \in Orders(b.edge_buffer) :
           LET f == finish_with(b, node_order, edge_order) IN
           /\ data_buffer' = b
           /\ ser_pc' = f.pc
           /\ ser_result' = f.result
           /\ data' = f.data
    /\ last' = [op |-> "finish", row |-> Solution(NoTerm, NoTerm, NoTerm, NoTerm)]
    /\ UNCHANGED <<count, pos>>

----------------------------------------------------------------------------
(* The terms and rows the serializer is driven with.                       *)

ex(local) == Iri(<<"http://example.com", "#", local>>)

Guardian == ex("Guardian")
Warden == ex("Warden")
Warden1 == ex("Warden1")
blank1 == Blank("b1")
knows == ex("knows")
example_com == Iri(<<"http://example.com", "#">>)
other_org == Iri(<<"http://other.org", "#">>)

Row(id, nodeType, target) == Solution(id, nodeType, target, NoTerm)

\* Rows of every kind of outcome: node and edge declarations, merges,
\* rows that fail, a row that is skipped, a property with its domain/range row.
Rows ==
    {Row(Guardian, owl_CLASS, NoTerm),
     Solution(Warden, owl_CLASS, NoTerm, Lit("warden")),
     Row(blank1, Lit("blanknode"), NoTerm),
     Row(Guardian, Lit("comment"), NoTerm),
     Row(Warden, rdfs_SUB_CLASS_OF, Guardian),
     Row(Guardian, rdfs_SUB_CLASS_OF, NoTerm),
     Row(Guardian, owl_DISJOINT_WITH, Warden),
     Row(Warden, owl_UNION_OF, blank1),
     Row(Guardian, owl_EQUIVALENT_CLASS, Warden),
     Row(Guardian, owl_EQUIVALENT_CLASS, blank1),
     Row(Guardian, owl_EQUIVALENT_CLASS, NoTerm),
     Row(Guardian, blank1, Warden),
     Row(NoTerm, owl_CLASS, NoTerm),
     Row(knows, owl_OBJECT_PROPERTY, NoTerm),
     Row(Guardian, knows, Warden),
     Row(example_com, owl_ONTOLOGY, NoTerm),
     Row(other_org, owl_ONTOLOGY, NoTerm)}

\* Longest solution stream explored.
MaxRows == 3

----------------------------------------------------------------------------
(* The store wrapper VOWLRStore (store.rs).  File names, paths and file    *)
(* contents are token sequences; a quad is the sequence of word tokens of  *)
(* one statement.  A VOWLRStore value is a record                          *)
(* [session, upload_handle]; every operation returns the set of outcomes   *)
(* [self, ret] it can have, ret being "Ok" or the kind of VOWLRStoreError. *)

NoExtension == [some |-> FALSE, v |-> << >>]

\* Path::extension(): the tokens after the last dot of the file name, if
\* the name has a dot that is not its first token.
extension(path) ==
    LET i == LastIndexOf(path, ".") IN
    IF i > 1 THEN [some |-> TRUE, v |-> SubSeq(path, i + 1, Len(path))] ELSE NoExtension

\* upload_handle: None.
NoHandle == [some |-> FALSE, path |-> << >>, content |-> << >>]

\* tempfile::Builder::new().suffix(suffix).tempfile(): a new empty file.
TempFile(suffix) == [some |-> TRUE, path |-> <<"tmp">> \o suffix, content |-> << >>]

\* VOWLRStore::new(session)
new(quads) == [session |-> quads, upload_handle |-> NoHandle]

\* The input syntaxes of the loader and the token that ends a statement in
\* each of them.
Formats == {"ofn", "owl", "ttl", "owx"}

Terminators == {")", ">", ".", "/"}

Terminator(format) ==
    CASE format = "ofn" -> ")"
      [] format = "owl" -> ">"
      [] format = "ttl" -> "."
      [] format = "owx" -> "/"

\* parser_from_format(path, lenient): the parser chosen by the extension
\* with the whole input read into memory, an I/O error, or InvalidInput for
\* an unsupported extension.
parser_from_format(fs, lenient) ==
    LET ext == extension(fs.path) IN
    IF ext.some /\ Len(ext.v) = 1 /\ ext.v[1] \in Formats
    THEN {[ret |-> "Ok", format |-> ext.v[1], lenient |-> lenient, input |-> fs.content],
          [ret |-> "Io", format |-> ext.v[1], lenient |-> lenient, input |-> << >>]}
    ELSE {[ret |-> "InvalidInput", format |-> "", lenient |-> lenient, input |-> << >>]}

\* The quads the parser reads from its input, in order, and whether it
\* reached the end without a syntax error.  A statement is a non-empty run
\* of word tokens closed by the terminator of the format; a lenient parser
\* tolerates a last statement that is not closed.
RECURSIVE parse_quads(_, _, _, _, _)
parse_quads(format, lenient, input, current, quads) ==
    IF input = << >>
    THEN IF current = << >> THEN [ok |-> TRUE, quads |-> quads]
         ELSE IF lenient THEN [ok |-> TRUE, quads |-> Append(quads, current)]
         ELSE [ok |-> FALSE, quads |-> quads]
    ELSE LET c == Head(input) IN
         IF c = Terminator(format)
         THEN IF current = << >>
              THEN [ok |-> FALSE, quads |-> quads]
              ELSE parse_quads(format, lenient, Tail(input), << >>, Append(quads, current))
         ELSE IF c \in Terminators
         THEN [ok |-> FALSE, quads |-> quads]
         ELSE parse_quads(format, lenient, Tail(input), Append(current, c), quads)

\* session.load_from_reader(parser.parser, parser.input): every quad is
\* inserted, or the load fails at a syntax error having inserted some
\* prefix of the quads read before it.
load_from_reader(quads, parser) ==
    LET r == parse_quads(parser.format, parser.lenient, parser.input, << >>, << >>) IN
    IF r.ok
    THEN {[session |-> quads \cup {r.quads[i] : i \in 1..Len(r.quads)}, ret |-> "Ok"]}
    ELSE {[session |-> quads \cup {r.quads[i] : i \in 1..n}, ret |-> "Parser"] :
             n \in 0..Len(r.quads)}

\* insert_file(&self, fs, lenient); fs is the file: its path and content.
insert_file(self, fs, lenient) ==
    UNION {IF parser.ret # "Ok"
           THEN {[self |-> self, ret |-> parser.ret]}
           ELSE {[self |-> [self EXCEPT !.session = l.session], ret |-> l.ret] :
                    l \in load_from_reader(self.session, parser)} :
           parser \in parser_from_format(fs, lenient)}

\* A faulty variant of start_upload that keeps the file of an upload that
\* is already in progress; C8 has to reject it.
start_upload_keeping_current(self, filename) ==
    LET ext == extension(filename)
        e == IF ext.some THEN ext.v ELSE <<"owl">> IN
    IF self.upload_handle.some
    THEN {[self |-> self, ret |-> "Ok"]}
    ELSE {[self |-> [self EXCEPT !.upload_handle = TempFile(<<".">> \o e)], ret |-> "Ok"],
          [self |-> self, ret |-> "Io"]}

\* start_upload(&mut self, filename)
start_upload(self, filename) ==
    LET ext == extension(filename)
        e == IF ext.some THEN ext.v ELSE <<"owl">> IN
    {[self |-> [self EXCEPT !.upload_handle = TempFile(<<".">> \o e)], ret |-> "Ok"],
     [self |-> self, ret |-> "Io"]}

\* A faulty variant of upload_chunk that writes every chunk at the start of
\* the file; C5 has to reject it.
upload_chunk_overwriting(self, chunk) ==
    IF self.upload_handle.some
    THEN {[self |-> [self EXCEPT !.upload_handle.content = chunk], ret |-> "Ok"]}
    ELSE {[self |-> self, ret |-> "Ok"]}

\* upload_chunk(&mut self, data): write_all appends all the bytes, or fails
\* having appended fewer.
upload_chunk(self, chunk) ==
    IF self.upload_handle.some
    THEN {[self |-> [self EXCEPT !.upload_handle.content = @ \o chunk], ret |-> "Ok"]}
         \cup {[self |-> [self EXCEPT !.upload_handle.content = @ \o SubSeq(chunk, 1, n)],
                ret |-> "Io"] : n \in 0..(Len(chunk) - 1)}
    ELSE {[self |-> self, ret |-> "Ok"]}

\* The part of complete_upload inside `if let Some(file)`: the outcomes that
\* leave through `?` keep upload_handle, the one that falls through to
\* `self.upload_handle = None` clears it.
complete_some(self) ==
    LET file == self.upload_handle IN
    {[self |-> self, ret |-> "Io"]}
    \cup UNION {IF parser.ret # "Ok"
                THEN {[self |-> self, ret |-> parser.ret]}
                ELSE {[self |-> [session |-> l.session,
                                 upload_handle |-> IF l.ret = "Ok" THEN NoHandle ELSE file],
                       ret |-> l.ret] :
                         l \in load_from_reader(self.session, parser)} :
                parser \in parser_from_format([path |-> file.path, content |-> file.content],
                                              FALSE)}

\* A faulty variant of complete_upload that fails when no upload is in
\* progress; C7 has to reject it.
complete_upload_requiring_upload(self) ==
    IF self.upload_handle.some
    THEN complete_some(self)
    ELSE {[self |-> self, ret |-> "InvalidInput"]}

\* complete_upload(&mut self)
complete_upload(self) ==
    IF self.upload_handle.some
    THEN complete_some(self)
    ELSE {[self |-> [self EXCEPT !.upload_handle = NoHandle], ret |-> "Ok"]}

\* What a caller can observe of a set of outcomes: the quads of the
\* session and the value returned.
Effects(outcomes) == {[session |-> o.self.session, ret |-> o.ret] : o \in outcomes}

\* The upload a caller is running, as its calls and their results define
\* it: the file name of the last start_upload that returned Ok, the chunks
\* passed since to upload_chunk calls, whether each of them returned Ok,
\* whether complete_upload has returned since, whether the start_upload
\* came while an earlier upload was still running and, if so, the number of
\* chunks passed for that earlier upload.
NoUpload ==
    [started |-> FALSE, filename |-> << >>, chunks |-> << >>, intact |-> TRUE,
     completed |-> FALSE, replaced |-> FALSE, discarded |-> 0]

RECURSIVE Concat(_)
Concat(chunks) == IF chunks = << >> THEN << >> ELSE Head(chunks) \o Concat(Tail(chunks))

Self == [session |-> session, upload_handle |-> upload_handle]

\* The calls the wrapper is driven with.
FileNames == {<<"x", ".", "ttl">>, <<"x">>, <<"x", ".", "txt">>}

Chunks == {<<"a">>, <<".">>, <<"b", ".">>}

Files ==
    {[path |-> <<"y", ".", "ttl">>, content |-> <<"b">>],
     [path |-> <<"y", ".", "txt">>, content |-> <<"a", ".">>]}

\* Longest content of an upload's file explored.
MaxUploadLen == 2

StoreIdle ==
    /\ session = {}
    /\ upload_handle = NoHandle
    /\ store_ret = [op |-> "new", ret |-> "Ok", in_progress |-> FALSE]
    /\ uploaded = NoUpload

\* One call on the wrapper, with the outcome o.
Call(op, o) ==
    /\ session' = o.self.session
    /\ upload_handle' = o.self.upload_handle
    /\ store_ret' = [op |-> op, ret |-> o.ret, in_progress |-> upload_handle.some]

StartUpload ==
    \E filename \in FileNames : \E o \in start_upload(Self, filename) :
        /\ Call("start_upload", o)
        /\ UNCHANGED <<ser_vars, proc_vars, unit_vars>>
        /\ uploaded' = IF o.ret = "Ok"
                       THEN [started |-> TRUE, filename |-> filename, chunks |-> << >>,
                             intact |-> TRUE, completed |-> FALSE,
                             replaced |-> uploaded.started /\ ~uploaded.completed,
                             discarded |-> IF uploaded.started /\ ~uploaded.completed
                                           THEN Len(uploaded.chunks) ELSE 0]
                       ELSE uploaded

UploadChunk ==
    \E chunk \in Chunks : \E o \in upload_chunk(Self, chunk) :
        /\ Len(upload_handle.content) + Len(chunk) <= MaxUploadLen
        /\ Call("upload_chunk", o)
        /\ UNCHANGED <<ser_vars, proc_vars, unit_vars>>
        /\ uploaded' = IF uploaded.started /\ ~uploaded.completed
                       THEN IF o.ret = "Ok"
                            THEN [uploaded EXCEPT !.chunks = Append(@, chunk)]
                            ELSE [uploaded EXCEPT !.intact = FALSE]
                       ELSE uploaded

CompleteUpload ==
    \E o \in complete_upload(Self) :
        /\ Call("complete_upload", o)
        /\ UNCHANGED <<ser_vars, proc_vars, unit_vars>>
        /\ uploaded' = IF uploaded.started THEN [uploaded EXCEPT !.completed = TRUE]
                       ELSE uploaded

InsertFile ==
    \E fs \in Files : \E lenient \in BOOLEAN : \E o \in insert_file(Self, fs, lenient) :
        /\ Call("insert_file", o)
        /\ UNCHANGED <<uploaded, ser_vars, proc_vars, unit_vars>>

----------------------------------------------------------------------------
(* The process: the GLOBAL_STORE singleton and the tasks that obtain their *)
(* store from VOWLRStore::default().  A Store is a handle: its clones read *)
(* and write the same quads, here GLOBAL_STORE.quads.                      *)

\* OnceLock::new()
EmptyCell == [set |-> FALSE, quads |-> {}]

\* GLOBAL_STORE.get_or_init(Store::default)
get_or_init(cell) == IF cell.set THEN cell ELSE [set |-> TRUE, quads |-> {}]

\* VOWLRStore::default(): the cell afterwards and the wrapper returned.
default(cell) ==
    LET c == get_or_init(cell) IN [cell |-> c, store |-> new(c.quads)]

\* ontology_file_path(name)
ontology_file_path(name) ==
    CASE name = "Clinical Trials Ontology (CTO) (273 classes)" ->
             [ok |-> TRUE, path |-> <<"src/assets/data/ClinicalTrialOntology-merged", ".", "owl">>]
      [] name = "Friend of a Friend (FOAF) vocabulary (22 classes)" ->
             [ok |-> TRUE, path |-> <<"src/assets/data/foaf", ".", "ttl">>]
      [] name = "VOWL-R Benchmark Ontology (2.5k nodes)" ->
             [ok |-> TRUE, path |-> <<"src/assets/data/vowlr-benchmark-2500", ".", "ofn">>]
      [] name = "The Environment Ontology (6.9k classes)" ->
             [ok |-> TRUE, path |-> <<"src/assets/data/envo", ".", "owl">>]
      [] OTHER -> [ok |-> FALSE, path |-> << >>]

\* A bundled ontology file: one statement, naming the file, in the syntax
\* of the file's extension.
sample(path) == [path |-> path, content |-> <<path[1], Terminator(extension(path).v[1])>>]

\* The quads a strict load of the file alone puts into an empty store.
quads_of(fs) ==
    UNION {o.self.session : o \in {x \in insert_file(new({}), fs, FALSE) : x.ret = "Ok"}}

\* The requests and the tests the process is driven with.
\* Concurrent requests explored.
NumRequests == 3

Names ==
    {"Clinical Trials Ontology (CTO) (273 classes)",
     "Friend of a Friend (FOAF) vocabulary (22 classes)",
     "VOWL-R Benchmark Ontology (2.5k nodes)",
     "The Environment Ontology (6.9k classes)",
     "Pizza"}

\* Concurrent tests explored.
NumTests == 3

Resources ==
    {<<"crates/database/data/owl-functional/sample", ".", "ofn">>,
     <<"crates/database/data/owl-rdf/sample", ".", "owl">>,
     <<"crates/database/data/owl-ttl/sample", ".", "ttl">>,
     <<"crates/database/data/owl-xml/sample", ".", "owx">>}

NoTask == [pc |-> "idle", path |-> << >>, len |-> 0, ret |-> "None", quads |-> {}]

ProcIdle ==
    /\ GLOBAL_STORE = EmptyCell
    /\ task = << >>

\* load_stored_ontology(name) up to its first await: the path is looked up
\* and the store taken from default().
LoadCall ==
    \E t \in DOMAIN task : \E name \in Names :
        /\ task[t].pc = "idle"
        /\ LET file_path == ontology_file_path(name) IN
           IF ~file_path.ok
           THEN /\ task' = [task EXCEPT ![t].pc = "returned", ![t].ret = "Err"]
                /\ UNCHANGED GLOBAL_STORE
           ELSE /\ GLOBAL_STORE' = default(GLOBAL_STORE).cell
                /\ task' = [task EXCEPT ![t].pc = "insert_file", ![t].path = file_path.path]
        /\ UNCHANGED <<ser_vars, store_vars, unit_vars>>

\* store.insert_file(path, false).await.map_err(..)?
LoadInsertFile ==
    \E t \in DOMAIN task :
        /\ task[t].pc = "insert_file"
        /\ \E o \in insert_file(new(GLOBAL_STORE.quads), sample(task[t].path), FALSE) :
              /\ GLOBAL_STORE' = [GLOBAL_STORE EXCEPT !.quads = o.self.session]
              /\ task' = IF o.ret = "Ok"
                         THEN [task EXCEPT ![t].pc = "query"]
                         ELSE [task EXCEPT ![t].pc = "returned", ![t].ret = "Err"]
        /\ UNCHANGED <<ser_vars, store_vars, unit_vars>>

\* store.session.query(DEFAULT_QUERY) and serialize_nodes_stream: the graph
\* model returned is built from the quads the session holds at the query.
LoadQuery ==
    \E t \in DOMAIN task :
        /\ task[t].pc = "query"
        /\ \E ret \in {"Ok", "Err"} :
              task' = [task EXCEPT ![t].pc = "returned", ![t].ret = ret,
                                   ![t].quads = IF ret = "Ok" THEN GLOBAL_STORE.quads ELSE {}]
        /\ UNCHANGED GLOBAL_STORE
        /\ UNCHANGED <<ser_vars, store_vars, unit_vars>>

\* test_*_parser_format(resource): let store = VOWLRStore::default();
TestDefault ==
    \E t \in DOMAIN task : \E resource \in Resources :
        /\ task[t].pc = "idle"
        /\ GLOBAL_STORE' = default(GLOBAL_STORE).cell
        /\ task' = [task EXCEPT ![t].pc = "insert_file", ![t].path = resource]
        /\ UNCHANGED <<ser_vars, store_vars, unit_vars>>

\* store.insert_file(Path::new(&resource), false).await.unwrap();
TestInsertFile ==
    \E t \in DOMAIN task :
        /\ task[t].pc = "insert_file"
        /\ \E o \in insert_file(new(GLOBAL_STORE.quads), sample(task[t].path), FALSE) :
              /\ GLOBAL_STORE' = [GLOBAL_STORE EXCEPT !.quads = o.self.session]
              /\ task' = [task EXCEPT ![t].pc = IF o.ret = "Ok" THEN "len" ELSE "unwrap_panicked",
                                      ![t].ret = o.ret]
        /\ UNCHANGED <<ser_vars, store_vars, unit_vars>>

\* assert_ne!(store.session.len().await.unwrap(), 0, ..)
TestLen ==
    \E t \in DOMAIN task :
        /\ task[t].pc = "len"
        /\ LET len == Cardinality(GLOBAL_STORE.quads) IN
           task' = [task EXCEPT ![t].len = len,
                                ![t].pc = IF len # 0 THEN "clear" ELSE "assert_panicked"]
        /\ UNCHANGED GLOBAL_STORE
        /\ UNCHANGED <<ser_vars, store_vars, unit_vars>>

\* store.session.clear().await?; Ok(())
TestClear ==
    \E t \in DOMAIN task :
        /\ task[t].pc = "clear"
        /\ GLOBAL_STORE' = [GLOBAL_STORE EXCEPT !.quads = {}]
        /\ task' = [task EXCEPT ![t].pc = "returned"]
        /\ UNCHANGED <<ser_vars, store_vars, unit_vars>>

----------------------------------------------------------------------------
(* Edges inserted into a HashSet, as the tests of serializers.rs do.       *)

Edge(subject, element_type, object, property) ==
    [subject |-> subject, element_type |-> element_type,
     object |-> object, property |-> property]

MaxEdges == 2

likes == ex("likes")

EdgeTerms == {Guardian, Warden}
EdgeKinds == {OwlDisjointWith, OwlObjectProperty, RdfsSubclassOf}
EdgeProperties == {NoTerm, knows, likes}

Edges == {Edge(s, k, o, p) : s \in EdgeTerms, k \in EdgeKinds,
                             o \in EdgeTerms, p \in EdgeProperties}

\* HashSet::new(), no insert made yet.
EdgeIdle == [set |-> {}, inserted |-> << >>]

\* edge_set.insert(edge)
EdgeInsert ==
    /\ Len(edge_set.inserted) < MaxEdges
    /\ \E e \in Edges :
          edge_set' = [set |-> EdgeSetInsert(edge_set.set, e),
                       inserted |-> Append(edge_set.inserted, e)]
    /\ UNCHANGED <<ser_vars, store_vars, proc_vars, filtered, export, stream>>

----------------------------------------------------------------------------
(* The filter combinator of the filter menu.  A predicate                  *)
(* Fn(ElementType) -> bool is modelled by the set of elements it accepts.  *)

\* filters.iter().any(|f| f(elem))
any(filters, elem) == \E i \in 1..Len(filters) : elem \in filters[i]

\* A filter that keeps the elements accepted by every predicate.
filter_all(elements, filters) ==
    SelectSeq(elements, LAMBDA elem : \A i \in 1..Len(filters) : elem \in filters[i])

\* filter(elements, filters)
filter(elements, filters) == SelectSeq(elements, LAMBDA elem : any(filters, elem))

MaxElements == 3
MaxFilters == 2

FilterElements == {OwlClass, OwlThing, RdfsSubclassOf}

Predicates == {{}, {OwlClass}, {OwlThing, RdfsSubclassOf}, FilterElements}

SeqsUpTo(S, n) == UNION {[1..k -> S] : k \in 0..n}

FilterIdle == [called |-> FALSE, elements |-> << >>, filters |-> << >>, out |-> << >>]

\* One call of filter with any elements and predicates.
FilterCall ==
    /\ ~filtered.called
    /\ \E elements \in SeqsUpTo(FilterElements, MaxElements),
          filters \in SeqsUpTo(Predicates, MaxFilters) :
          filtered' = [called |-> TRUE, elements |-> elements, filters |-> filters,
                       out |-> filter(elements, filters)]
    /\ UNCHANGED <<ser_vars, store_vars, proc_vars, edge_set, export, stream>>

----------------------------------------------------------------------------
(* The classification predicates of the filter menu, over the whole        *)
(* element taxonomy (the variants the exhaustive matches of the legend     *)
(* lookup name).                                                           *)

OwlExternalClass == "Owl.Node.ExternalClass"
OwlInverseOf == "Owl.Edge.InverseOf"
OwlValuesFrom == "Owl.Edge.ValuesFrom"
GenericNode == "Generic.Node.Generic"
GenericEdge == "Generic.Edge.Generic"

\* ElementType::Owl(OwlType::Node(_))
OwlNodes ==
    {OwlAnonymousClass, OwlClass, OwlComplement, OwlDeprecatedClass, OwlExternalClass,
     OwlEquivalentClass, OwlDisjointUnion, OwlIntersectionOf, OwlThing, OwlUnionOf}

\* ElementType::Owl(OwlType::Edge(_))
OwlEdges ==
    {OwlDatatypeProperty, OwlDisjointWith, OwlDeprecatedProperty, OwlExternalProperty,
     OwlInverseOf, OwlObjectProperty, OwlValuesFrom}

\* ElementType::Rdfs(RdfsType::Node(_))
RdfsNodes == {RdfsClass, RdfsLiteral, RdfsResource, RdfsDatatype}

\* ElementType::Rdfs(RdfsType::Edge(_))
RdfsEdges == {RdfsSubclassOf}

\* ElementType::Rdf(RdfType::Edge(_))
RdfEdges == {RdfProperty}

\* Every value of ElementType.
ElementTypes ==
    {NoDraw, GenericNode, GenericEdge} \cup OwlNodes \cup OwlEdges
        \cup RdfsNodes \cup RdfsEdges \cup RdfEdges

\* is_set_operator(item)
is_set_operator(item) ==
    IF item \in OwlNodes
    THEN item \in {OwlComplement, OwlDisjointUnion, OwlIntersectionOf, OwlUnionOf}
    ELSE FALSE

\* An is_owl_class that accepts every OWL node kind.
is_owl_class_any_node(item) == item \in OwlNodes

\* is_owl_class(item)
is_owl_class(item) ==
    LET class == item \in OwlNodes IN
    class /\ ~is_set_operator(item)

\* is_rdf_class(item)
is_rdf_class(item) == item \in RdfsNodes

\* is_property(item)
is_property(item) ==
    \/ item = GenericEdge
    \/ item \in OwlEdges
    \/ item \in RdfEdges
    \/ item \in RdfsEdges

\* Longest element list classified in one call.
MaxClassified == 2

\* The four predicates, each as the set of element types it accepts.
ClassPredicates ==
    <<{e \in ElementTypes : is_owl_class(e)},
      {e \in ElementTypes : is_rdf_class(e)},
      {e \in ElementTypes : is_property(e)},
      {e \in ElementTypes : is_set_operator(e)}>>

\* One call of filter with the four predicates of the filter menu.
Classify ==
    /\ ~filtered.called
    /\ \E elements \in SeqsUpTo(ElementTypes, MaxClassified) :
          filtered' = [called |-> TRUE, elements |-> elements,
                       filters |-> ClassPredicates,
                       out |-> filter(elements, ClassPredicates)]
    /\ UNCHANGED <<ser_vars, store_vars, proc_vars, edge_set, export, stream>>

----------------------------------------------------------------------------
(* Export to a file.  The export stream yields Result<Vec<u8>, _> items    *)
(* (the item type of serialize_stream); the failures of File::create, of   *)
(* opening the stream and of write_all are inputs of the call.             *)

MaxChunks == 2

OkChunk(bytes) == [ok |-> TRUE, bytes |-> bytes]
ErrChunk == [ok |-> FALSE, bytes |-> << >>]

ExportItems == {OkChunk(<<"a">>), OkChunk(<<"b">>), ErrChunk}

\* while let Some(result) = results.next().await: item i onwards, with the
\* bytes written to the file so far.  write_fail is the index of the
\* write_all call that fails (0: none fails).
RECURSIVE export_loop(_, _, _, _)
export_loop(results, i, file, write_fail) ==
    IF i > Len(results)
    THEN [ret |-> "Ok", file |-> file]
    ELSE IF ~results[i].ok
    THEN [ret |-> "panic", file |-> file]
    ELSE IF write_fail = i
    THEN [ret |-> "Io", file |-> file]
    ELSE export_loop(results, i + 1, file \o results[i].bytes, write_fail)

\* serialize_to_file(path): the value returned ("panic" when the call
\* unwinds instead of returning) and the bytes of the file afterwards.
serialize_to_file(results, create_ok, stream_ok, write_fail) ==
    IF ~create_ok
    THEN [ret |-> "Io", file |-> << >>]
    ELSE IF ~stream_ok
    THEN [ret |-> "Parser", file |-> << >>]
    ELSE export_loop(results, 1, << >>, write_fail)

ExportIdle ==
    [called |-> FALSE, results |-> << >>, create_ok |-> TRUE, stream_ok |-> TRUE,
     write_fail |-> 0, ret |-> "none", file |-> << >>]

\* One call of serialize_to_file.
ExportCall ==
    /\ ~export.called
    /\ \E results \in SeqsUpTo(ExportItems, MaxChunks),
          create_ok \in BOOLEAN, stream_ok \in BOOLEAN, write_fail \in 0..MaxChunks :
          LET r == serialize_to_file(results, create_ok, stream_ok, write_fail) IN
          export' = [called |-> TRUE, results |-> results, create_ok |-> create_ok,
                     stream_ok |-> stream_ok, write_fail |-> write_fail,
                     ret |-> r.ret, file |-> r.file]
    /\ UNCHANGED <<ser_vars, store_vars, proc_vars, edge_set, filtered, stream>>

----------------------------------------------------------------------------
(* The variables of the unit-level behaviours before their first call.     *)

UnitIdle ==
    /\ edge_set = EdgeIdle
    /\ filtered = FilterIdle
    /\ export = ExportIdle
    /\ stream = << >>

Init == SerInit /\ StoreIdle /\ ProcIdle /\ UnitIdle

NextRow ==
    /\ pos < MaxRows
    /\ \E solution \in Rows : ProcessRow(solution)
    /\ UNCHANGED <<store_vars, proc_vars, unit_vars>>

NextError ==
    /\ pos < MaxRows
    /\ ProcessError
    /\ UNCHANGED <<store_vars, proc_vars, unit_vars>>

EndOfStream == Finish /\ UNCHANGED <<store_vars, proc_vars, unit_vars>>

Next == NextRow \/ NextError \/ EndOfStream

Spec == Init /\ [][Next]_vars

----------------------------------------------------------------------------
(* The store wrapper driven by arbitrary calls.                            *)

StoreNext == StartUpload \/ UploadChunk \/ CompleteUpload \/ InsertFile

SpecStore == Init /\ [][StoreNext]_vars

----------------------------------------------------------------------------
(* The server answering load_stored_ontology requests concurrently.        *)

ServerInit ==
    /\ SerInit /\ StoreIdle /\ UnitIdle
    /\ GLOBAL_STORE = EmptyCell
    /\ task = [t \in 1..NumRequests |-> NoTask]

ServerNext == LoadCall \/ LoadInsertFile \/ LoadQuery

SpecServer == ServerInit /\ [][ServerNext]_vars

----------------------------------------------------------------------------
(* The parser-format tests of store.rs run by the test harness as          *)
(* concurrent tasks of one process.                                        *)

TestsInit ==
    /\ SerInit /\ StoreIdle /\ UnitIdle
    /\ GLOBAL_STORE = EmptyCell
    /\ task = [t \in 1..NumTests |-> NoTask]

TestsNext == TestDefault \/ TestInsertFile \/ TestLen \/ TestClear

SpecTests == TestsInit /\ [][TestsNext]_vars

----------------------------------------------------------------------------
(* The merge scenarios: classes, edges between them and                    *)
(* owl:equivalentClass rows with named and blank-node objects.             *)

MergeRows ==
    {Row(Guardian, owl_CLASS, NoTerm),
     Row(Warden, owl_CLASS, NoTerm),
     Row(Warden1, owl_CLASS, NoTerm),
     Row(blank1, Lit("blanknode"), NoTerm),
     Row(Warden, rdfs_SUB_CLASS_OF, Guardian),
     Row(Warden1, owl_UNION_OF, Warden),
     Row(Guardian, owl_EQUIVALENT_CLASS, Warden),
     Row(Guardian, owl_EQUIVALENT_CLASS, Warden1),
     Row(Guardian, owl_EQUIVALENT_CLASS, blank1)}

\* Longest solution stream explored in the merge scenarios.
MaxMergeRows == 5

MergeRow ==
    /\ pos < MaxMergeRows
    /\ \E solution \in MergeRows : ProcessRow(solution)
    /\ UNCHANGED <<store_vars, proc_vars, unit_vars>>

MergeError ==
    /\ pos < MaxMergeRows
    /\ ProcessError
    /\ UNCHANGED <<store_vars, proc_vars, unit_vars>>

MergeNext == MergeRow \/ MergeError \/ EndOfStream

SpecMerge == Init /\ [][MergeNext]_vars

----------------------------------------------------------------------------
(* The final-pass scenarios: rows parked until the stream ends, among      *)
(* them an equivalence that redirects the key another row is parked under. *)

PassRows ==
    {Row(Guardian, owl_CLASS, NoTerm),
     Row(Warden, owl_CLASS, NoTerm),
     Row(blank1, rdfs_SUB_CLASS_OF, Warden),
     Row(Warden, rdfs_SUB_CLASS_OF, Guardian),
     Row(Guardian, owl_EQUIVALENT_CLASS, blank1),
     Row(Guardian, owl_UNION_OF, Warden)}

\* Longest solution stream explored in the final-pass scenarios.
MaxPassRows == 4

PassRow ==
    /\ pos < MaxPassRows
    /\ \E solution \in PassRows : ProcessRow(solution)
    /\ UNCHANGED <<store_vars, proc_vars, unit_vars>>

PassNext == PassRow \/ EndOfStream

SpecPass == Init /\ [][PassNext]_vars

----------------------------------------------------------------------------
(* The property scenarios: property declarations, domain/range rows of     *)
(* the fallback arm, characteristics, and a term declared both as a class  *)
(* and as a property.                                                      *)

PropRows ==
    {Row(Guardian, owl_CLASS, NoTerm),
     Row(Warden, owl_CLASS, NoTerm),
     Row(knows, owl_OBJECT_PROPERTY, NoTerm),
     Row(knows, owl_CLASS, NoTerm),
     Row(owl_THING, owl_THING, NoTerm),
     Row(Guardian, knows, Warden),
     Row(Guardian, knows, owl_THING),
     Row(Warden1, knows, owl_THING),
     Row(other_org, owl_ONTOLOGY, NoTerm),
     Row(Warden, rdfs_SUB_CLASS_OF, Guardian),
     Row(knows, owl_INVERSE_FUNCTIONAL_PROPERTY, NoTerm),
     Row(Guardian, owl_INVERSE_FUNCTIONAL_PROPERTY, NoTerm),
     Row(Guardian, owl_EQUIVALENT_CLASS, Warden)}

\* Longest solution stream explored in the property scenarios.
MaxPropRows == 4

PropRow ==
    /\ pos < MaxPropRows
    /\ \E solution \in PropRows : ProcessRow(solution)
    /\ UNCHANGED <<store_vars, proc_vars, unit_vars>>

PropNext == PropRow \/ EndOfStream

SpecProps == Init /\ [][PropNext]_vars

----------------------------------------------------------------------------
(* The order scenarios: declarations and rdfs:subClassOf/owl:disjointWith  *)
(* rows, each yielded at most once, in any order.                          *)

OrderRows ==
    {Row(Guardian, owl_CLASS, NoTerm),
     Row(Guardian, owl_THING, NoTerm),
     Row(Warden, owl_CLASS, NoTerm),
     Row(Warden, rdfs_SUB_CLASS_OF, Guardian),
     Row(Guardian, owl_DISJOINT_WITH, Warden),
     Row(Warden, owl_DISJOINT_WITH, Guardian),
     Row(Guardian, rdfs_SUB_CLASS_OF, Warden1)}

\* Longest solution stream explored in the order scenarios.
MaxOrderRows == 5

Range(f) == {f[i] : i \in DOMAIN f}

OrderRow ==
    /\ pos < MaxOrderRows
    /\ \E solution \in OrderRows \ Range(stream) :
          /\ ProcessRow(solution)
          /\ stream' = Append(stream, solution)
    /\ UNCHANGED <<store_vars, proc_vars, edge_set, filtered, export>>

OrderNext == OrderRow \/ EndOfStream

SpecOrder == Init /\ [][OrderNext]_vars

----------------------------------------------------------------------------
(* The caller scenarios: serialize_nodes_stream called with a              *)
(* GraphDisplayData that is empty or holds the graph of an earlier call.   *)

PriorData ==
    [NewGraphDisplayData EXCEPT !.elements = <<OwlThing>>, !.labels = <<<<"Thing">>>>]

CallerData == {NewGraphDisplayData, PriorData}

FrameInit ==
    /\ data_buffer = NewBuffer
    /\ data \in CallerData
    /\ ser_pc = "stream"
    /\ ser_result = NoResult
    /\ count = 0
    /\ pos = 0
    /\ last = [op |-> "init", row |-> Solution(NoTerm, NoTerm, NoTerm, NoTerm)]
    /\ StoreIdle /\ ProcIdle /\ UnitIdle

FrameNext == NextRow \/ NextError \/ EndOfStream

SpecFrame == FrameInit /\ [][FrameNext]_vars

----------------------------------------------------------------------------
(* The conversion scenarios: From applied to buffers that hold             *)
(* characteristics for their nodes and edges.                              *)

\* Longest characteristic list of a node or an edge.
MaxChars == 2

CharNames == {<<"FunctionalProperty">>, <<"InverseFunctionalProperty">>}

\* The non-empty characteristic lists.
CharLists == SeqsUpTo(CharNames, MaxChars) \ {<< >>}

ConvEdge == Edge(Warden, RdfsSubclassOf, Guardian, NoTerm)

ConvLabels == Put(Put(EmptyMap, Guardian, <<"Guardian">>), Warden, <<"Warden">>)

\* Maps from some of the keys to characteristic lists.
CharMaps(keys) == UNION {[ks -> CharLists] : ks \in SUBSET keys}

ConvBuffers ==
    {[NewBuffer EXCEPT
         !.node_element_buffer = [t \in nodes |-> OwlClass],
         !.label_buffer = [t \in nodes |-> ConvLabels[t]],
         !.edge_buffer = edges,
         !.edge_label_buffer = [e \in edges |-> <<"Subclass of">>],
         !.node_characteristics = nc,
         !.edge_characteristics = ec] :
       nodes \in SUBSET {Guardian, Warden},
       edges \in SUBSET {ConvEdge},
       nc \in CharMaps({Guardian, Warden}),
       ec \in CharMaps({ConvEdge})}

ConvInit ==
    /\ data_buffer \in ConvBuffers
    /\ data = NewGraphDisplayData
    /\ ser_pc = "stream"
    /\ ser_result = NoResult
    /\ count = 0
    /\ pos = 0
    /\ last = [op |-> "init", row |-> Solution(NoTerm, NoTerm, NoTerm, NoTerm)]
    /\ StoreIdle /\ ProcIdle /\ UnitIdle

\* data_buffer.into(): the conversion applied to the buffer, for one
\* iteration order of its nodes and one of its edges.
Convert ==
    /\ ser_pc = "stream"
    /\ \E node_order \in Orders(DOMAIN data_buffer.node_element_buffer) :
       \E edge_order \in Orders(data_buffer.edge_buffer) :
           data' = From(data_buffer, node_order, edge_order)
    /\ ser_pc' = "returned"
    /\ ser_result' = [kind |-> "Ok", total |-> 0, log |-> << >>]
    /\ last' = [op |-> "convert", row |-> Solution(NoTerm, NoTerm, NoTerm, NoTerm)]
    /\ UNCHANGED <<data_buffer, count, pos, store_vars, proc_vars, unit_vars>>

ConvNext == Convert

SpecConv == ConvInit /\ [][ConvNext]_vars

----------------------------------------------------------------------------
(* Properties of serialize_nodes_stream and of the conversion.             *)

\* C1: serialize_nodes_stream returns Err exactly when the stream yielded an
\* error row or failed_buffer is non-empty after check_all_unknowns; in the
\* second case the error carries the number of failed entries and every
\* (triple, reason) pair; otherwise it returns Ok and the caller's data is
\* the conversion of the buffer.
C1_ErrExactlyOnRowErrorOrFailures ==
    ser_pc = "returned" =>
        /\ (ser_result.kind = "Err") <=>
               (last.op = "error" \/ data_buffer.failed_buffer # << >>)
        /\ ser_result.kind \in {"Err", "Ok"}
        /\ (last.op = "finish" /\ ser_result.kind = "Err") =>
               /\ ser_result.total = Len(data_buffer.failed_buffer)
               /\ ser_result.log = data_buffer.failed_buffer
        /\ ser_result.kind = "Ok" =>
               \E node_order \in Orders(DOMAIN data_buffer.node_element_buffer) :
               \E edge_order \in Orders(data_buffer.edge_buffer) :
                   data = From(data_buffer, node_order, edge_order)

\* A call that returned Err for two failed rows.
C1_Witness ==
    /\ ser_pc = "returned"
    /\ last.op = "finish"
    /\ ser_result.kind = "Err"
    /\ ser_result.total = 2

\* The graph model g is well formed with respect to the buffer val it was
\* converted from.
WellFormed(g, val) ==
    /\ Len(g.elements) = Len(g.labels)
    /\ \A i \in 1..Len(g.edges) :
          LET t == g.edges[i] IN
          /\ \A j \in 1..3 : t[j] >= 0 /\ t[j] < Len(g.elements)
          /\ \E e \in val.edge_buffer :
                /\ g.elements[t[2] + 1] = e.element_type
                /\ Has(val.node_element_buffer, e.subject)
                /\ Has(val.node_element_buffer, e.object)
                /\ g.elements[t[1] + 1] = val.node_element_buffer[e.subject]
                /\ g.elements[t[3] + 1] = val.node_element_buffer[e.object]

\* C2: for every reachable working buffer and every iteration order, the
\* converted graph model has elements and labels of equal length and every
\* edges triple within bounds, its middle index at the slot of the edge's type.
C2_ConversionWellFormed ==
    Running(data_buffer) =>
        \A node_order \in Orders(DOMAIN data_buffer.node_element_buffer) :
        \A edge_order \in Orders(data_buffer.edge_buffer) :
            WellFormed(From(data_buffer, node_order, edge_order), data_buffer)

\* A returned graph model with an edges triple in it.
C2_Witness ==
    /\ ser_pc = "returned"
    /\ ser_result.kind = "Ok"
    /\ Len(data.edges) >= 1
    /\ Len(data.elements) >= 3

\* C3: processing `S owl:equivalentClass O` (S, O named, O classified as a
\* node) leaves O out of node_element_buffer, redirects O to S, keeps S if
\* it was a node, and leaves no edge of edge_buffer touching O: every edge
\* that touched O touches S instead.
C3_MergeRetargetsEveryEdge ==
    [][ LET S == last'.row.id
            O == last'.row.target
            retarget(e) == [e EXCEPT !.subject = IF @ = O THEN S ELSE @,
                                     !.object = IF @ = O THEN S ELSE @] IN
        ( /\ last'.op = "row"
          /\ last'.row.nodeType = owl_EQUIVALENT_CLASS
          /\ is_named_node(S) /\ is_named_node(O) /\ S # O
          /\ Has(data_buffer.node_element_buffer, O) )
        => /\ Running(data_buffer')
           /\ ~Has(data_buffer'.node_element_buffer, O)
           /\ Has(data_buffer'.edge_redirection, O)
           /\ data_buffer'.edge_redirection[O] = S
           /\ Has(data_buffer.node_element_buffer, S) => Has(data_buffer'.node_element_buffer, S)
           /\ \A e \in data_buffer'.edge_buffer : e.subject # O /\ e.object # O
           /\ \A e \in data_buffer.edge_buffer :
                  EdgeSetContains(data_buffer'.edge_buffer, retarget(e)) ]_vars

\* C4: processing `S owl:equivalentClass B` (S a classified node, B a blank
\* node that is unclassified, an anonymous class, or already redirected to
\* S) makes resolve(B) return S, keeps S a node and leaves B out of
\* edges_include_map.
C4_BlankEquivalenceRedirects ==
    [][ LET S == last'.row.id
            B == last'.row.target IN
        ( /\ last'.op = "row"
          /\ last'.row.nodeType = owl_EQUIVALENT_CLASS
          /\ is_blank_node(B)
          /\ Has(data_buffer.node_element_buffer, S)
          /\ \/ ~Classified(data_buffer, B) /\ ~Has(data_buffer.edge_redirection, B)
             \/ /\ Has(data_buffer.node_element_buffer, B)
                /\ data_buffer.node_element_buffer[B] = OwlAnonymousClass
             \/ /\ ~Classified(data_buffer, B)
                /\ Has(data_buffer.edge_redirection, B)
                /\ data_buffer.edge_redirection[B] = S )
        => /\ Running(data_buffer')
           /\ resolve(data_buffer', B) = S
           /\ Has(data_buffer'.node_element_buffer, S)
           /\ ~Has(data_buffer'.edges_include_map, B) ]_vars

----------------------------------------------------------------------------
(* Properties of the store wrapper.                                        *)

\* C5: once start_upload("x.ttl") and the upload_chunk calls after it have
\* returned Ok, complete_upload has exactly the effects on the session's
\* quads, and the results, of insert_file on a .ttl file holding the
\* chunks' bytes in order, however the bytes were split into chunks.
C5_ChunkedUploadEqualsInsertFile ==
    ( /\ uploaded.started /\ ~uploaded.completed /\ uploaded.intact
      /\ uploaded.filename = <<"x", ".", "ttl">> )
    => Effects(complete_upload(Self)) =
       Effects(insert_file(Self,
                           [path |-> <<"single", ".", "ttl">>,
                            content |-> Concat(uploaded.chunks)],
                           FALSE))

\* The upload of "a." to x.ttl in the two chunks "a" and "." has completed
\* and its quad is in the session.
C5_Witness ==
    /\ store_ret = [op |-> "complete_upload", ret |-> "Ok", in_progress |-> TRUE]
    /\ uploaded.completed /\ uploaded.intact
    /\ uploaded.filename = <<"x", ".", "ttl">>
    /\ uploaded.chunks = << <<"a">>, <<".">> >>
    /\ <<"a">> \in session

\* C6: after complete_upload has returned, with Ok or with an error, the
\* wrapper has no upload in progress.
C6_CompleteUploadDiscardsHandle ==
    store_ret.op = "complete_upload" => ~upload_handle.some

\* C7: with no upload in progress, upload_chunk and complete_upload return
\* Ok, leave the session's quads as they are and create no upload handle.
C7_NoUploadNoOp ==
    [][ (store_ret'.op \in {"upload_chunk", "complete_upload"} /\ ~upload_handle.some)
        => /\ store_ret'.ret = "Ok"
           /\ session' = session
           /\ ~upload_handle'.some ]_vars

\* complete_upload has returned Ok on a wrapper that had no upload in
\* progress and whose session holds quads.
C7_Witness ==
    /\ store_ret = [op |-> "complete_upload", ret |-> "Ok", in_progress |-> FALSE]
    /\ ~upload_handle.some
    /\ session # {}

\* C8: when start_upload(f2) succeeded while an upload was in progress,
\* complete_upload affects the session as insert_file would on a file with
\* f2's extension holding only the chunks passed after start_upload(f2), or
\* fails on I/O leaving the quads as they are.
C8_RestartDiscardsEarlierUpload ==
    [][ ( /\ store_ret'.op = "complete_upload"
          /\ uploaded.started /\ ~uploaded.completed
          /\ uploaded.replaced /\ uploaded.intact )
        => LET ext == extension(uploaded.filename)
               f2 == <<"f2", ".">> \o (IF ext.some THEN ext.v ELSE <<"owl">>) IN
           [session |-> session', ret |-> store_ret'.ret] \in
               Effects(insert_file(Self, [path |-> f2, content |-> Concat(uploaded.chunks)],
                                   FALSE))
               \cup {[session |-> session, ret |-> "Io"]} ]_vars

\* An upload to x.ttl that replaced an upload with a chunk already written
\* has completed: the session holds the quad of "b." and nothing else.
C8_Witness ==
    /\ store_ret = [op |-> "complete_upload", ret |-> "Ok", in_progress |-> TRUE]
    /\ uploaded.completed /\ uploaded.replaced /\ uploaded.intact
    /\ uploaded.discarded >= 1
    /\ uploaded.filename = <<"x", ".", "ttl">>
    /\ uploaded.chunks = << <<"b", ".">> >>
    /\ session = {<<"b">>}

----------------------------------------------------------------------------
(* Properties of the tasks sharing the default store.                      *)

\* C9: a load_stored_ontology call that returns Ok has run its query
\* against exactly the quads of the ontology file it named, whatever other
\* calls have loaded.
C9_LoadSeesOnlyNamedOntology ==
    \A t \in DOMAIN task :
        (task[t].pc = "returned" /\ task[t].ret = "Ok")
        => task[t].quads = quads_of(sample(task[t].path))

\* C10: in every test, the quad count read after insert_file succeeded is
\* non-zero, under every interleaving of the tests' steps.
C10_CountAfterInsertNonZero ==
    \A t \in DOMAIN task :
        task[t].pc \in {"clear", "assert_panicked", "returned"} => task[t].len # 0

----------------------------------------------------------------------------
(* Edges in a HashSet.                                                     *)

EdgesNext == EdgeInsert

SpecEdges == Init /\ [][EdgesNext]_vars

swapped(e) == Edge(e.object, e.element_type, e.subject, e.property)

\* C11: two DisjointWith edges with the same property whose subject and
\* object are swapped compare equal and hash identically, for all terms A
\* and B, and a set into which both were inserted holds exactly one entry
\* for the pair.
C11_DisjointWithSymmetric ==
    /\ \A e \in Edges :
          e.element_type = OwlDisjointWith =>
              /\ EdgeEq(e, swapped(e))
              /\ EdgeHash(e) = EdgeHash(swapped(e))
    /\ \A i \in 1..Len(edge_set.inserted) :
          LET e == edge_set.inserted[i] IN
          e.element_type = OwlDisjointWith =>
              Cardinality(edge_set.set \cap {e, swapped(e)}) = 1

C11_Witness ==
    /\ Len(edge_set.inserted) = 2
    /\ edge_set.inserted[1].element_type = OwlDisjointWith
    /\ edge_set.inserted[1].subject # edge_set.inserted[1].object
    /\ edge_set.inserted[2] = swapped(edge_set.inserted[1])
    /\ Cardinality(edge_set.set) = 1

\* C12: edges of every kind other than DisjointWith are equal exactly when
\* subject, object, element type and property are all equal; an
\* ObjectProperty edge and its swapped edge (A # B), or two edges that
\* differ in the property only, are unequal and are both kept by a set.
C12_OtherKindsDistinct ==
    /\ \A x, y \in Edges :
          x.element_type # OwlDisjointWith =>
              (EdgeEq(x, y) <=> x = y)
    /\ \A i \in 1..Len(edge_set.inserted) :
          edge_set.inserted[i].element_type # OwlDisjointWith =>
              edge_set.inserted[i] \in edge_set.set

C12_Witness ==
    /\ Len(edge_set.inserted) = 2
    /\ edge_set.inserted[1].element_type = OwlObjectProperty
    /\ edge_set.inserted[1].subject # edge_set.inserted[1].object
    /\ edge_set.inserted[1].property = knows
    /\ edge_set.inserted[2] = swapped(edge_set.inserted[1])
    /\ Cardinality(edge_set.set) = 2

----------------------------------------------------------------------------
(* Rows of the serializer, one arm of write_node_triple at a time.         *)

\* C13: a row whose nodeType is a blank node appends exactly one entry (the
\* triple and the illegal-blank-node message) to failed_buffer and leaves
\* node_element_buffer, edge_element_buffer, edge_buffer, edge_redirection
\* and unknown_buffer as they were, whatever the buffer held before.
C13_BlankNodeTypeOnlyFails ==
    [][ (last'.op = "row" /\ last'.row.nodeType.kind = "blank") =>
            /\ data_buffer'.failed_buffer =
                   Append(data_buffer.failed_buffer,
                          <<Triple(last'.row.id, last'.row.nodeType, last'.row.target),
                            "Illegal blank node during serialization">>)
            /\ data_buffer'.node_element_buffer = data_buffer.node_element_buffer
            /\ data_buffer'.edge_element_buffer = data_buffer.edge_element_buffer
            /\ data_buffer'.edge_buffer = data_buffer.edge_buffer
            /\ data_buffer'.edge_redirection = data_buffer.edge_redirection
            /\ data_buffer'.unknown_buffer = data_buffer.unknown_buffer ]_vars

C13_Witness ==
    /\ last.op = "row" /\ last.row.nodeType.kind = "blank"
    /\ Len(data_buffer.failed_buffer) = 1
    /\ DOMAIN data_buffer.node_element_buffer # {}
    /\ DOMAIN data_buffer.unknown_buffer # {}

\* C14: after a row whose nodeType is the literal "blanknode" has been
\* processed, the row's subject is a key of node_element_buffer and is
\* classified as an anonymous class (the map holds one node per key).
C14_BlankNodeRowYieldsAnonymousClass ==
    [][ (/\ last'.op = "row"
         /\ last'.row.nodeType = Lit("blanknode")
         /\ Running(data_buffer')) =>
            /\ Has(data_buffer'.node_element_buffer, last'.row.id)
            /\ data_buffer'.node_element_buffer[last'.row.id] = OwlAnonymousClass ]_vars

\* C14, amended: after such a row the subject is a key of
\* node_element_buffer classified as an anonymous class, provided the subject
\* was not classified before the row and is not a key of edge_redirection,
\* neither before the row (insert_node then skips it) nor after it (a parked
\* equivalence replayed by the row merged it away).
C14_BlankNodeRowUnlessMergedOrClassified ==
    [][ (/\ last'.op = "row"
         /\ last'.row.nodeType = Lit("blanknode")
         /\ Running(data_buffer')
         /\ ~Has(data_buffer.node_element_buffer, last'.row.id)
         /\ ~Has(data_buffer.edge_redirection, last'.row.id)
         /\ ~Has(data_buffer'.edge_redirection, last'.row.id)) =>
            /\ Has(data_buffer'.node_element_buffer, last'.row.id)
            /\ data_buffer'.node_element_buffer[last'.row.id] = OwlAnonymousClass ]_vars

\* A "blanknode" row that found parked rows for its subject and replayed them.
C14_Witness ==
    /\ last.op = "row" /\ last.row.nodeType = Lit("blanknode")
    /\ Has(data_buffer.node_element_buffer, last.row.id)
    /\ data_buffer.node_element_buffer[last.row.id] = OwlAnonymousClass
    /\ data_buffer.edge_buffer # {}

\* C15: document_base is set by the first owl:Ontology row, to the subject
\* IRI without its surrounding '<' and '>', and never changes afterwards: a
\* later owl:Ontology row with any subject and a row of any other kind leave
\* the base that is set unchanged; no other row sets it.
C15_DocumentBaseSetOnce ==
    [][ /\ data_buffer.has_base =>
              /\ data_buffer'.has_base
              /\ data_buffer'.document_base = data_buffer.document_base
        /\ (~data_buffer.has_base /\ data_buffer'.has_base) =>
              /\ last'.op = "row" /\ last'.row.nodeType = owl_ONTOLOGY
              /\ data_buffer'.document_base = last'.row.id.id
        /\ (last'.op = "row" /\ last'.row.nodeType = owl_ONTOLOGY) =>
              data_buffer'.has_base ]_vars

\* A second owl:Ontology row with another subject has been processed.
C15_Witness ==
    /\ last.op = "row" /\ last.row.nodeType = owl_ONTOLOGY
    /\ data_buffer.has_base
    /\ data_buffer.document_base # last.row.id.id

----------------------------------------------------------------------------
(* The filter combinator.                                                  *)

FilterNext == FilterCall

SpecFilter == Init /\ [][FilterNext]_vars

\* The positions of the input accepted by at least one predicate.
Matched == {i \in 1..Len(filtered.elements) :
               \E j \in 1..Len(filtered.filters) :
                   filtered.elements[i] \in filtered.filters[j]}

\* The k-th matched position, counted from the front of the input.
NthMatched(k) == CHOOSE i \in Matched : Cardinality({j \in Matched : j <= i}) = k

\* C16: filter returns exactly the elements matched by at least one
\* predicate, in input order and with duplicates kept; with zero predicates
\* the result is empty for any input, and with a predicate that is always
\* true the result equals the input.
C16_FilterKeepsMatchedInOrder ==
    filtered.called =>
        /\ Len(filtered.out) = Cardinality(Matched)
        /\ \A k \in 1..Len(filtered.out) :
              filtered.out[k] = filtered.elements[NthMatched(k)]
        /\ filtered.filters = << >> => filtered.out = << >>
        /\ (\E j \in 1..Len(filtered.filters) : filtered.filters[j] = FilterElements) =>
              filtered.out = filtered.elements

\* A call with a duplicated element kept twice and another element dropped.
C16_Witness ==
    /\ filtered.called
    /\ Len(filtered.elements) = 3
    /\ Len(filtered.out) = 2
    /\ filtered.out[1] = filtered.out[2]
    /\ Len(filtered.filters) = 2

----------------------------------------------------------------------------
(* Export to a file.                                                       *)

ExportNext == ExportCall

SpecExport == Init /\ [][ExportNext]_vars

\* The first item of the stream that is an error, 0 when there is none.
FirstFailed ==
    IF \E i \in 1..Len(export.results) : ~export.results[i].ok
    THEN CHOOSE i \in 1..Len(export.results) :
             /\ ~export.results[i].ok
             /\ \A j \in 1..(i - 1) : export.results[j].ok
    ELSE 0

RECURSIVE BytesBefore(_)
BytesBefore(i) ==
    IF i <= 1 THEN << >> ELSE BytesBefore(i - 1) \o export.results[i - 1].bytes

\* C17: when a chunk of the export stream fails while serialize_to_file is
\* writing (the file and the stream were opened and every earlier write
\* succeeded), the call returns a StoreError to its caller and the chunks
\* written before remain in the file.
C17_FailedChunkReturnsStoreError ==
    (/\ export.called /\ export.create_ok /\ export.stream_ok
     /\ FirstFailed # 0
     /\ (export.write_fail = 0 \/ export.write_fail > FirstFailed)) =>
        /\ export.ret \in {"Io", "Parser"}
        /\ export.file = BytesBefore(FirstFailed)

----------------------------------------------------------------------------
(* Resolution and parking.                                                 *)

\* The terms the rows of the merge scenarios mention as subject or object.
ResolveTerms == {Guardian, Warden, Warden1, blank1}

\* C18: in every buffer reachable by processing rows (repeated and
\* self-referential owl:equivalentClass rows included) resolve(x) terminates
\* for every term x and returns None or a term classified in
\* node_element_buffer or edge_element_buffer; edge_redirection holds no
\* cycle that resolve can enter.
C18_ResolveTerminates ==
    \A x \in ResolveTerms :
        LET r == resolve(data_buffer, x) IN
        /\ r # Diverge
        /\ r = NoTerm \/ Classified(data_buffer, r)

\* The arms of write_node_triple that hand the row to insert_edge as it is.
EdgeRowTypes == {rdf_PROPERTY, rdfs_SUB_CLASS_OF, owl_DEPRECATED_PROPERTY, owl_DISJOINT_WITH}

Parked(buf, triple) == \E k \in DOMAIN buf.unknown_buffer : triple \in buf.unknown_buffer[k]

\* C19: insert_edge never drops a row on a resolution failure: a row routed
\* to insert_edge, with or without a target, whose subject or object does
\* not resolve is in unknown_buffer afterwards, under the object's key when
\* only the object fails and under the subject's key when the subject fails
\* or both fail.
C19_UnresolvedEdgeRowIsParked ==
    [][ (/\ last'.op = "row"
         /\ last'.row.nodeType \in EdgeRowTypes
         /\ Running(data_buffer')) =>
            LET triple == Triple(last'.row.id, last'.row.nodeType, last'.row.target)
                so == resolve_so(data_buffer, triple) IN
            /\ so[1] = NoTerm =>
                  /\ Has(data_buffer'.unknown_buffer, triple.id)
                  /\ triple \in data_buffer'.unknown_buffer[triple.id]
            /\ (so[1] # NoTerm /\ so[2] = NoTerm) =>
                  /\ Parked(data_buffer', triple)
                  /\ triple.target # NoTerm =>
                        /\ Has(data_buffer'.unknown_buffer, triple.target)
                        /\ triple \in data_buffer'.unknown_buffer[triple.target] ]_vars

\* C20: rows are parked only under a term that does not resolve and are
\* replayed as soon as the term is classified: after each top-level row has
\* been fully processed, no key of unknown_buffer is a key of
\* node_element_buffer or of edge_element_buffer.
C20_NoParkedKeyIsClassified ==
    (ser_pc = "stream" /\ last.op = "row") =>
        \A k \in DOMAIN data_buffer.unknown_buffer :
            /\ ~Has(data_buffer.node_element_buffer, k)
            /\ ~Has(data_buffer.edge_element_buffer, k)

----------------------------------------------------------------------------
(* The final pass.                                                         *)

\* The rows parked in a buffer, and how often a row occurs in a log.
ParkedRows(buf) == UNION {buf.unknown_buffer[k] : k \in DOMAIN buf.unknown_buffer}

Occurrences(log, t) == Cardinality({i \in 1..Len(log) : log[i] = t})

\* C21: check_all_unknowns terminates and passes every row that was in
\* unknown_buffer at stream end to write_node_triple exactly once; no row
\* is processed a second time during the pass.
C21_FinalPassReplaysEachRowOnce ==
    [][ last'.op = "finish" =>
            /\ Running(data_buffer')
            /\ \A t \in ParkedRows(data_buffer) :
                  Occurrences(data_buffer'.processed, t) =
                      Cardinality({k \in DOMAIN data_buffer.unknown_buffer :
                                      t \in data_buffer.unknown_buffer[k]})
            /\ \A i \in 1..Len(data_buffer'.processed) :
                  data_buffer'.processed[i] \in ParkedRows(data_buffer) ]_vars

----------------------------------------------------------------------------
(* Labels.                                                                 *)

\* C22: once label_buffer holds a label for a term, no later row of any
\* kind changes or removes that label.
C22_LabelNeverChanges ==
    [][ \A k \in DOMAIN data_buffer.label_buffer :
            /\ Has(data_buffer'.label_buffer, k)
            /\ data_buffer'.label_buffer[k] = data_buffer.label_buffer[k] ]_vars

\* l continues in m with a newline and further text.
Extended(l, m) ==
    /\ Len(m) > Len(l) + 1
    /\ SubSeq(m, 1, Len(l)) = l
    /\ m[Len(l) + 1] = "\n"

\* C22, amended: a label that label_buffer holds is never replaced by a
\* later row; it is kept, or extended by a newline and the label of a node
\* merged into its term by an equivalence with a named object, or removed
\* when its own term is that object, which then is no node any more.
C22_LabelKeptExtendedOrMoved ==
    [][ \A k \in DOMAIN data_buffer.label_buffer :
            IF Has(data_buffer'.label_buffer, k)
            THEN \/ data_buffer'.label_buffer[k] = data_buffer.label_buffer[k]
                 \/ Extended(data_buffer.label_buffer[k], data_buffer'.label_buffer[k])
            ELSE ~Has(data_buffer'.node_element_buffer, k) ]_vars

\* An equivalence row has moved the label of its object to its subject.
C22_Witness ==
    /\ last.op = "row" /\ last.row.nodeType = owl_EQUIVALENT_CLASS
    /\ Has(data_buffer.label_buffer, last.row.id)
    /\ Extended(<<"Guardian">>, data_buffer.label_buffer[last.row.id])
    /\ ~Has(data_buffer.label_buffer, last.row.target)

----------------------------------------------------------------------------
(* Classification.                                                         *)

\* C23: in every reachable buffer no term is a key of both
\* node_element_buffer and edge_element_buffer.
C23_ClassifiedInOneBufferOnly ==
    \A k \in DOMAIN data_buffer.node_element_buffer :
        ~Has(data_buffer.edge_element_buffer, k)

----------------------------------------------------------------------------
(* The fallback arm: rows whose nodeType is a property of the ontology.    *)

\* A row of the fallback arm with a target: its nodeType is a named term
\* outside the vocabulary handled by the other arms.
FallbackRow(row) ==
    /\ row.nodeType \in {knows, likes}
    /\ row.target # NoTerm

Resolves(buf, x) == resolve(buf, x) \notin {NoTerm, Diverge}

\* C24: for a fallback row whose property term resolves and exactly one of
\* its subject and its target resolves, the target being owl:Thing or
\* rdfs:Literal, processing the row inserts a placeholder Thing or Literal
\* node and adds to edge_buffer an edge between the resolved endpoint and
\* that placeholder.
C24_PlaceholderNodeAndEdge ==
    [][ (/\ last'.op = "row" /\ FallbackRow(last'.row)
         /\ last'.row.target \in {owl_THING, rdfs_LITERAL}
         /\ Running(data_buffer')
         /\ Resolves(data_buffer, last'.row.nodeType)
         /\ Resolves(data_buffer, last'.row.id) # Resolves(data_buffer, last'.row.target)) =>
            \E n \in DOMAIN data_buffer'.node_element_buffer :
                /\ ~Has(data_buffer.node_element_buffer, n)
                /\ data_buffer'.node_element_buffer[n] \in {OwlThing, RdfsLiteral}
                /\ \E e \in data_buffer'.edge_buffer :
                      /\ e \notin data_buffer.edge_buffer
                      /\ e.subject = n \/ e.object = n ]_vars

\* How many of subject, property term and target of a row resolve.
ResolvedCount(buf, row) ==
    Cardinality({i \in 1..3 : Resolves(buf, <<row.id, row.nodeType, row.target>>[i])})

\* C25: a fallback row with a target of which fewer than two of subject,
\* property term and target resolve is in unknown_buffer after processing,
\* under a term of the row that failed to resolve; in particular when only
\* the property term resolves.
C25_UnresolvedFallbackRowIsParked ==
    [][ (/\ last'.op = "row" /\ FallbackRow(last'.row)
         /\ Running(data_buffer')
         /\ ResolvedCount(data_buffer, last'.row) < 2) =>
            \E k \in {last'.row.id, last'.row.nodeType, last'.row.target} :
                /\ ~Resolves(data_buffer, k)
                /\ Has(data_buffer'.unknown_buffer, k)
                /\ Triple(last'.row.id, last'.row.nodeType, last'.row.target)
                       \in data_buffer'.unknown_buffer[k] ]_vars

\* C26: for a fallback row whose subject, property term and target all
\* resolve, the edge added to edge_buffer runs from the domain endpoint to
\* the range endpoint, the row's target being the domain and the row's
\* subject the range: the edge's subject is the resolved target and its
\* object the resolved row subject, as property_domain_map and
\* property_range_map record the pair.
C26_FallbackEdgeRunsDomainToRange ==
    [][ (/\ last'.op = "row" /\ FallbackRow(last'.row)
         /\ Running(data_buffer')
         /\ ResolvedCount(data_buffer, last'.row) = 3) =>
            LET key == to_string(last'.row.nodeType) IN
            /\ Has(data_buffer'.property_domain_map, key)
            /\ to_string(last'.row.target) \in data_buffer'.property_domain_map[key]
            /\ Has(data_buffer'.property_range_map, key)
            /\ to_string(last'.row.id) \in data_buffer'.property_range_map[key]
            /\ \E e \in data_buffer'.edge_buffer :
                  /\ e.property = last'.row.nodeType
                  /\ e.subject = resolve(data_buffer, last'.row.target)
                  /\ e.object = resolve(data_buffer, last'.row.id) ]_vars

\* C27: insert_edge draws an edge as ExternalProperty exactly when its kind
\* is not NoDraw and the edge's own identifying term is external; the
\* endpoints do not count.  For a rdfs:subClassOf row whose endpoints both
\* resolve, the own term is rdfs:subClassOf: the row's edge is a SubclassOf
\* edge unless that term is external, also when the subject endpoint is an
\* external class.
C27_ExternalByOwnTermOnly ==
    [][ (/\ last'.op = "row"
         /\ last'.row.nodeType = rdfs_SUB_CLASS_OF
         /\ last'.row.target # NoTerm
         /\ Resolves(data_buffer, last'.row.id)
         /\ Resolves(data_buffer, last'.row.target)
         /\ Running(data_buffer')) =>
            \E e \in data_buffer'.edge_buffer :
                /\ e.subject = resolve(data_buffer, last'.row.id)
                /\ e.object = resolve(data_buffer, last'.row.target)
                /\ e.element_type =
                       IF is_external(data_buffer, last'.row.nodeType)
                       THEN OwlExternalProperty
                       ELSE RdfsSubclassOf ]_vars

\* The kinds a plain owl:Class node can be promoted to.
UpgradedKinds ==
    {OwlComplement, OwlDisjointUnion, OwlIntersectionOf, OwlUnionOf, OwlEquivalentClass}

\* The terms upgrade_node_type is tried on.
UpgradeTerms == {Guardian, Warden, Warden1, blank1, knows}

\* C28: while a term stays in node_element_buffer its classification
\* changes only from plain owl:Class to Complement, DisjointUnion,
\* IntersectionOf, UnionOf or EquivalentClass and any other classification
\* is never changed; upgrade_node_type on a term that is not in
\* node_element_buffer changes nothing and does not create the node.
C28_OnlyPlainClassIsUpgraded ==
    /\ [][ \A t \in DOMAIN data_buffer.node_element_buffer :
              (/\ Has(data_buffer'.node_element_buffer, t)
               /\ data_buffer'.node_element_buffer[t] # data_buffer.node_element_buffer[t]) =>
                  /\ data_buffer.node_element_buffer[t] = OwlClass
                  /\ data_buffer'.node_element_buffer[t] \in UpgradedKinds ]_vars
    /\ [](\A t \in UpgradeTerms : \A k \in UpgradedKinds :
              LET r == upgrade_node_type(data_buffer, t, k) IN
              /\ ~Has(data_buffer.node_element_buffer, t) => r = data_buffer
              /\ (/\ Has(data_buffer.node_element_buffer, t)
                  /\ data_buffer.node_element_buffer[t] # OwlClass) => r = data_buffer)

\* A node promoted from owl:Class by a union row, a later equivalence row on
\* the same subject having left it a union.
C28_Witness ==
    /\ last.op = "row"
    /\ last.row.nodeType = owl_EQUIVALENT_CLASS
    /\ Has(data_buffer.node_element_buffer, last.row.id)
    /\ data_buffer.node_element_buffer[last.row.id] = OwlUnionOf
    /\ Running(data_buffer)

\* C29: after an owl:InverseFunctionalProperty row whose subject resolves,
\* the characteristics recorded for the resolved subject contain
\* "InverseFunctionalProperty"; when the subject does not resolve the row is
\* parked under the subject's key.
C29_InverseFunctionalRecorded ==
    [][ (/\ last'.op = "row"
         /\ last'.row.nodeType = owl_INVERSE_FUNCTIONAL_PROPERTY
         /\ Running(data_buffer')) =>
            LET id == last'.row.id
                triple == Triple(id, last'.row.nodeType, last'.row.target)
                s == resolve(data_buffer, id)
                recorded(chars) ==
                    \E i \in 1..Len(chars) : chars[i] = <<"InverseFunctionalProperty">> IN
            IF Resolves(data_buffer, id)
            THEN \/ /\ Has(data_buffer'.node_characteristics, s)
                    /\ recorded(data_buffer'.node_characteristics[s])
                 \/ \E e \in DOMAIN data_buffer'.edge_characteristics :
                       /\ s \in {e.subject, e.object, e.property}
                       /\ recorded(data_buffer'.edge_characteristics[e])
            ELSE /\ Has(data_buffer'.unknown_buffer, id)
                 /\ triple \in data_buffer'.unknown_buffer[id] ]_vars

ObjectNotFound ==
    "Failed to merge object of equivalence relation into subject: object not found"

\* C31: a row S owl:equivalentClass O with O a named term appends the
\* failure "object not found" exactly when O is neither a key of
\* node_element_buffer nor a key of unknown_buffer; when O is only a key of
\* unknown_buffer its parked rows are removed without being replayed, no
\* redirection from O is created, no failure is recorded and S is upgraded
\* to EquivalentClass if it is a plain class.
C31_ObjectNotFoundExactlyWhenUnknown ==
    [][ (/\ last'.op = "row"
         /\ last'.row.nodeType = owl_EQUIVALENT_CLASS
         /\ is_named_node(last'.row.target)
         /\ Running(data_buffer')) =>
            LET S == last'.row.id
                O == last'.row.target
                triple == Triple(S, last'.row.nodeType, O)
                inNodes == Has(data_buffer.node_element_buffer, O)
                inUnknown == Has(data_buffer.unknown_buffer, O) IN
            /\ (Occurrences(data_buffer'.failed_buffer, <<triple, ObjectNotFound>>)
                   > Occurrences(data_buffer.failed_buffer, <<triple, ObjectNotFound>>))
                <=> (~inNodes /\ ~inUnknown)
            /\ (~inNodes /\ inUnknown) =>
                  /\ data_buffer'.unknown_buffer = Del(data_buffer.unknown_buffer, O)
                  /\ data_buffer'.edge_buffer = data_buffer.edge_buffer
                  /\ data_buffer'.edge_redirection = data_buffer.edge_redirection
                  /\ data_buffer'.failed_buffer = data_buffer.failed_buffer
                  /\ DOMAIN data_buffer'.node_element_buffer
                        = DOMAIN data_buffer.node_element_buffer
                  /\ (/\ Has(data_buffer.node_element_buffer, S)
                      /\ data_buffer.node_element_buffer[S] = OwlClass) =>
                         data_buffer'.node_element_buffer[S] = OwlEquivalentClass ]_vars

\* An equivalence row has discarded the rows parked under its named object:
\* the subject is an EquivalentClass, the object was never a node and is not
\* redirected, and nothing failed.
C31_Witness ==
    /\ last.op = "row"
    /\ last.row.nodeType = owl_EQUIVALENT_CLASS
    /\ is_named_node(last.row.target)
    /\ Running(data_buffer)
    /\ data_buffer.failed_buffer = << >>
    /\ ~Has(data_buffer.edge_redirection, last.row.target)
    /\ ~Has(data_buffer.unknown_buffer, last.row.target)
    /\ Has(data_buffer.node_element_buffer, last.row.id)
    /\ data_buffer.node_element_buffer[last.row.id] = OwlEquivalentClass

\* The rows that can fail: a blank-node nodeType or owl:equivalentClass.
FailingKind(element_type) ==
    element_type.kind = "blank" \/ element_type = owl_EQUIVALENT_CLASS

\* C32: failed_buffer grows only on a row with a blank-node nodeType or on
\* an owl:equivalentClass row; rows with an unrecognized named nodeType, an
\* unsupported literal nodeType, unresolved endpoints or an
\* already-classified subject never add a failure, neither when processed
\* nor when replayed in the final pass, so that a call that returns Err at
\* the end of the stream has met a row of the two kinds, and so has a call
\* that does not return.
C32_FailuresOnlyFromBlankOrEquivalence ==
    /\ [][ data_buffer'.failed_buffer # data_buffer.failed_buffer =>
              /\ last'.op = "row"
              /\ FailingKind(last'.row.nodeType)
              /\ Len(data_buffer'.failed_buffer) = Len(data_buffer.failed_buffer) + 1
              /\ SubSeq(data_buffer'.failed_buffer, 1, Len(data_buffer.failed_buffer))
                    = data_buffer.failed_buffer
              /\ data_buffer'.failed_buffer[Len(data_buffer'.failed_buffer)][1]
                    = Triple(last'.row.id, last'.row.nodeType, last'.row.target) ]_vars
    /\ []((ser_pc = "returned" /\ last.op = "finish" /\ ser_result.kind = "Err") =>
              /\ data_buffer.failed_buffer # << >>
              /\ \A i \in 1..Len(data_buffer.failed_buffer) :
                    FailingKind(data_buffer.failed_buffer[i][1].element_type))
    /\ [](~Running(data_buffer) => data_buffer.edge_redirection # EmptyMap)

\* A stream of rows that were parked, unresolved to the end, has returned Ok.
C32_Witness ==
    /\ ser_pc = "returned"
    /\ last.op = "finish"
    /\ ser_result.kind = "Ok"
    /\ data_buffer.unknown_buffer # EmptyMap
    /\ data_buffer.failed_buffer = << >>
    /\ data_buffer.edge_redirection = EmptyMap

\* C33: at the end of the stream both endpoints of every edge in
\* edge_buffer are keys of node_element_buffer, so the conversion never
\* drops an edge because an endpoint has no index: a call that returns Ok
\* has emitted one edges triple per edge of edge_buffer that has a label.
C33_EdgeEndpointsAreNodes ==
    (last.op = "finish" /\ Running(data_buffer)) =>
        /\ \A e \in data_buffer.edge_buffer :
              /\ Has(data_buffer.node_element_buffer, e.subject)
              /\ Has(data_buffer.node_element_buffer, e.object)
        /\ ser_result.kind = "Ok" =>
              Len(data.edges) =
                  Cardinality({e \in data_buffer.edge_buffer :
                                  EdgeMapHas(data_buffer.edge_label_buffer, e)})

\* C34: in every reachable buffer state an edge of edge_buffer has its
\* property field populated iff its element type is one of ObjectProperty,
\* DatatypeProperty, DeprecatedProperty, ExternalProperty; edges of every
\* other kind have no property, also after merges have retargeted them.
C34_PropertyOnlyOnPropertyEdges ==
    \A e \in data_buffer.edge_buffer :
        (e.property # NoTerm) <=> (e.element_type \in should_hash_property)

\* An equivalence row has retargeted an edge without a property to the
\* subject it merged into.
C34_Witness ==
    /\ last.op = "row"
    /\ last.row.nodeType = owl_EQUIVALENT_CLASS
    /\ Has(data_buffer.edge_redirection, last.row.target)
    /\ \E e \in data_buffer.edge_buffer :
          /\ last.row.id \in {e.subject, e.object}
          /\ e.property = NoTerm

----------------------------------------------------------------------------
(* The classification predicates.                                          *)

ClassifyNext == Classify

SpecClassify == Init /\ [][ClassifyNext]_vars

\* The predicates (by position in ClassPredicates) that hold of an element.
Holding(e) == {j \in 1..Len(filtered.filters) : e \in filtered.filters[j]}

\* C35: the four filter predicates are pairwise disjoint over the whole
\* element taxonomy: at most one of is_owl_class, is_rdf_class, is_property
\* and is_set_operator holds of an element type; every OWL node kind
\* satisfies exactly one of is_owl_class and is_set_operator, every edge
\* kind of every sub-taxonomy satisfies is_property only, and NoDraw
\* satisfies none.
C35_PredicatesDisjoint ==
    filtered.called =>
        \A i \in 1..Len(filtered.elements) :
            LET e == filtered.elements[i] IN
            /\ Cardinality(Holding(e)) <= 1
            /\ e \in OwlNodes => Holding(e) \in {{1}, {4}}
            /\ e \in OwlEdges \cup RdfsEdges \cup RdfEdges \cup {GenericEdge} =>
                  Holding(e) = {3}
            /\ e = NoDraw => Holding(e) = {}

\* A set-operator kind and a generic node classified in one call: the
\* first is kept, the second matches no predicate.
C35_Witness ==
    /\ filtered.called
    /\ filtered.filters = ClassPredicates
    /\ filtered.elements = <<OwlComplement, GenericNode>>
    /\ filtered.out = <<OwlComplement>>

\* The edges of edge_buffer that have the term as subject or object.
EdgesOf(buf, t) == {e \in buf.edge_buffer : t \in {e.subject, e.object}}

\* C36: in every reachable buffer state edges_include_map agrees with
\* edge_buffer: for every term t, edges_include_map[t] is exactly the set
\* of edges of edge_buffer that have t as subject or object (a term
\* without an entry having none), also after equivalence merges have
\* retargeted edges.
C36_IncludeMapAgreesWithEdgeBuffer ==
    Running(data_buffer) =>
        /\ \A t \in DOMAIN data_buffer.edges_include_map :
              data_buffer.edges_include_map[t] = EdgesOf(data_buffer, t)
        /\ \A e \in data_buffer.edge_buffer :
              /\ Has(data_buffer.edges_include_map, e.subject)
              /\ Has(data_buffer.edges_include_map, e.object)

\* C37: in every reachable buffer state every edge of edge_buffer has an
\* entry in edge_label_buffer, also after an equivalence merge has
\* retargeted the edge, so the conversion never drops an edge for a missing
\* label and emits one edges triple per edge of edge_buffer whose endpoints
\* have indices.
C37_EveryEdgeHasLabel ==
    Running(data_buffer) =>
        /\ \A e \in data_buffer.edge_buffer :
              EdgeMapHas(data_buffer.edge_label_buffer, e)
        /\ (last.op = "finish" /\ ser_result.kind = "Ok") =>
              Len(data.edges) =
                  Cardinality({e \in data_buffer.edge_buffer :
                                  /\ Has(data_buffer.node_element_buffer, e.subject)
                                  /\ Has(data_buffer.node_element_buffer, e.object)})

\* C38: in every reachable buffer state no term is both a key of
\* edge_redirection and a key of node_element_buffer: a term that was
\* merged away or redirected is never a classified node again, whatever
\* rows follow.
C38_RedirectedTermIsNoNode ==
    DOMAIN data_buffer.edge_redirection \cap DOMAIN data_buffer.node_element_buffer = {}

\* The declaration row of a term that an earlier equivalence row merged
\* away has been processed, and the term is still redirected.
C38_Witness ==
    /\ last.op = "row"
    /\ last.row.nodeType = owl_CLASS
    /\ Has(data_buffer.edge_redirection, last.row.id)
    /\ ~Has(data_buffer.node_element_buffer, last.row.id)
    /\ Running(data_buffer)

----------------------------------------------------------------------------
(* Independence of the row order.                                          *)

DeclRow(r) == r.nodeType \in {owl_CLASS, owl_THING} /\ r.target = NoTerm

EdgeRow(r) == r.nodeType \in {rdfs_SUB_CLASS_OF, owl_DISJOINT_WITH} /\ r.target # NoTerm

\* Every row is a declaration or an edge row with a target, and the subject
\* of every row has exactly one declaration row.
OrderPrecondition(R) ==
    \A r \in R :
        /\ DeclRow(r) \/ EdgeRow(r)
        /\ Cardinality({d \in R : DeclRow(d) /\ d.id = r.id}) = 1

Declared(R) == {d.id : d \in {x \in R : DeclRow(x)}}

\* The classification the declaration rows of R give, whatever their order.
ExpectedNodes(R) ==
    [t \in Declared(R) |->
        LET d == CHOOSE x \in R : DeclRow(x) /\ x.id = t IN
        IF d.nodeType = owl_CLASS THEN OwlClass ELSE OwlThing]

\* One edge per edge row of R whose endpoints are both declared.
ExpectedEdges(R) ==
    {Edge(r.id,
          IF r.nodeType = rdfs_SUB_CLASS_OF THEN RdfsSubclassOf ELSE OwlDisjointWith,
          r.target, NoTerm) :
        r \in {x \in R : EdgeRow(x) /\ x.id \in Declared(R) /\ x.target \in Declared(R)}}

\* C39: for a row set without owl:Ontology and owl:equivalentClass rows in
\* which every subject has exactly one node-declaration row and all other
\* rows are rdfs:subClassOf or owl:disjointWith rows with a target, the
\* final node_element_buffer and edge_buffer (after the final
\* unknown-buffer pass) are the same for every order in which the rows are
\* processed, and contain an edge for every such row whose two endpoints
\* are declared.  Edges are compared by the equality of Edge.
C39_FinalBuffersIndependentOfOrder ==
    (last.op = "finish" /\ OrderPrecondition(Range(stream))) =>
        /\ Running(data_buffer)
        /\ data_buffer.node_element_buffer = ExpectedNodes(Range(stream))
        /\ \A e \in ExpectedEdges(Range(stream)) :
              \E x \in data_buffer.edge_buffer : EdgeFound(x, e)
        /\ \A x \in data_buffer.edge_buffer :
              \E e \in ExpectedEdges(Range(stream)) : EdgeFound(x, e)

\* A stream that yielded two edge rows before any declaration has ended
\* with both edges in edge_buffer.
C39_Witness ==
    /\ last.op = "finish"
    /\ OrderPrecondition(Range(stream))
    /\ Len(stream) = 5
    /\ EdgeRow(stream[1])
    /\ EdgeRow(stream[2])
    /\ Cardinality(data_buffer.edge_buffer) = 2

----------------------------------------------------------------------------
(* The caller's GraphDisplayData.                                          *)

\* C40: serialize_nodes_stream writes the caller's output graph model only
\* on success: the GraphDisplayData passed in changes only in the step
\* that returns Ok, so whenever the call returns Err (a row error in the
\* stream or a non-empty failure list) it is exactly as it was before the
\* call, with no partial result.
C40_DataWrittenOnlyOnOk ==
    /\ [][ data' # data =>
              /\ last'.op = "finish"
              /\ ser_pc' = "returned"
              /\ ser_result'.kind = "Ok" ]_vars
    /\ [](ser_result.kind = "Err" => data \in CallerData)

\* A call that had classified a node returned Err for its failure list,
\* the caller's earlier graph being still in place.
C40_Witness ==
    /\ ser_pc = "returned"
    /\ last.op = "finish"
    /\ ser_result.kind = "Err"
    /\ data_buffer.node_element_buffer # EmptyMap
    /\ data = PriorData

=============================================================================
